---- MODULE Spec2Model ----
(***************************************************************************)
(* Function / Differentiable_Function wrappers with shared evaluation     *)
(* counters (functions.hpp) and the solvers built on them: Newton and     *)
(* Steffensen (root_solvers example) and Adam_optimize (Adam.hpp).        *)
(***************************************************************************)
EXTENDS Integers, Sequences, FiniteSets, TLC

(***************************************************************************)
(* Bounds of the model.                                                    *)
(***************************************************************************)
\* number of Function / Differentiable_Function variables of the caller
MaxInst == 2
\* number of Impl objects the caller wraps
MaxImpl == 2
\* evaluations made directly by the caller stop once a counter reads this
MaxCount == 2
\* number of counter cells the caller's initialize_counter calls allocate
MaxCells == 3
\* largest magnitude of a finite scalar, in units of 1/Scale
MaxMag == 2000000
\* largest max_iter handed to Newton / Steffensen
MaxIter == 5
\* largest maximimum_iterations handed to Adam_optimize by name
MaxAdamIter == 3
\* number of solver calls the caller starts from a fresh point
MaxCalls == 1
\* number of times the caller repeats a call that returned true
MaxReruns == 1
\* number of times the caller repeats a call from the point it started from
MaxRepeats == 1
\* number of evaluations each thread makes
MaxThreadEvals == 2
\* largest integer the reference runs of the root solvers start from
MaxRefStart == 3

(***************************************************************************)
(* The representation of the scalars of a run: "fixed" for the fixed-point *)
(* numbers, "binary64" for the doubles themselves.                         *)
(***************************************************************************)
VARIABLE precision

(***************************************************************************)
(* Scalars, exactly.  Where a run depends on the digits of the doubles, a  *)
(* double is the IEEE-754 binary64 number itself: a sign s, a mantissa m   *)
(* of at most 53 bits and an exponent e, the value being m * 2^e, and      *)
(* every operation rounds its exact result to the nearest such number,     *)
(* ties to even.  The mantissa is a natural number written in the radix    *)
(* Radix, least significant digit first, without leading zeros.            *)
(***************************************************************************)
RadixBits == 15
Radix == 2^RadixBits
\* mantissa bits, and the exponent range of m * 2^e with m < 2^53
MantBits == 53
MinExp == 0 - 1074
MaxExp == 971

Max2(a, b) == IF a > b THEN a ELSE b
MaxOf(S) == CHOOSE i \in S : \A j \in S : j <= i

\* the digits of a without its leading zeros
NTrim(a) ==
  IF a = << >> THEN a
  ELSE LET K == { i \in 1..Len(a) : a[i] # 0 }
       IN  IF K = {} THEN << >> ELSE SubSeq(a, 1, MaxOf(K))

NDigitAt(a, i) == IF i >= 1 /\ i <= Len(a) THEN a[i] ELSE 0

\* a natural number below 2^31
NFromInt(n) == NTrim([i \in 1..3 |-> (n \div Radix^(i - 1)) % Radix])

\* a + b: the carry into digit i comes from a digit below that overflows,
\* through digits that are all Radix - 1
NAdd(a, b) ==
  IF a = << >> THEN NTrim(b)
  ELSE IF b = << >> THEN NTrim(a)
  ELSE
  LET t(i) == NDigitAt(a, i) + NDigitAt(b, i)
      carry(i) == \E j \in 1..(i - 1) :
                    t(j) >= Radix /\ \A l \in (j + 1)..(i - 1) : t(l) = Radix - 1
  IN  NTrim([i \in 1..(Max2(Len(a), Len(b)) + 1) |->
               (t(i) + (IF carry(i) THEN 1 ELSE 0)) % Radix])

\* a - b for a >= b
NSub(a, b) ==
  IF b = << >> THEN a
  ELSE
  LET borrow(i) == \E j \in 1..(i - 1) :
                     a[j] < NDigitAt(b, j)
                     /\ \A l \in (j + 1)..(i - 1) : a[l] = NDigitAt(b, l)
  IN  NTrim([i \in 1..Len(a) |->
               (a[i] - NDigitAt(b, i) - (IF borrow(i) THEN 1 ELSE 0) + Radix)
               % Radix])

\* the sign of a - b
NCmp(a, b) ==
  LET D == { i \in 1..Len(a) : a[i] # NDigitAt(b, i) }
  IN  IF Len(a) < Len(b) THEN 0 - 1
      ELSE IF Len(a) > Len(b) THEN 1
      ELSE IF D = {} THEN 0
      ELSE IF a[MaxOf(D)] < b[MaxOf(D)] THEN 0 - 1
      ELSE 1

\* a * k for k <= Radix
NMulDigit(a, k) ==
  IF a = << >> \/ k = 0 THEN << >>
  ELSE
  NAdd([i \in 1..Len(a) |-> (a[i] * k) % Radix],
       << 0 >> \o [i \in 1..Len(a) |-> (a[i] * k) \div Radix])

NShiftDigits(a, n) ==
  IF a = << >> THEN a ELSE [i \in 1..n |-> 0] \o a

RECURSIVE NMulFrom(_, _, _)
NMulFrom(a, b, i) ==
  IF i > Len(b) THEN << >>
  ELSE NAdd(NShiftDigits(NMulDigit(a, b[i]), i - 1), NMulFrom(a, b, i + 1))

NMul(a, b) == NMulFrom(a, b, 1)

\* the number of bits of a digit
BitLen(n) ==
  CHOOSE k \in 0..RadixBits : n < 2^k /\ (k = 0 \/ n >= 2^(k - 1))

NBitLen(a) ==
  IF a = << >> THEN 0 ELSE (Len(a) - 1) * RadixBits + BitLen(a[Len(a)])

\* a * 2^k
NShl(a, k) ==
  IF a = << >> \/ k = 0 THEN a
  ELSE
  NShiftDigits(NMulDigit(a, 2^(k % RadixBits)), k \div RadixBits)

\* a \div 2^k
NShr(a, k) ==
  IF a = << >> \/ k = 0 THEN a
  ELSE
  LET d == k \div RadixBits
      r == k % RadixBits
      t == IF d >= Len(a) THEN << >> ELSE SubSeq(a, d + 1, Len(a))
  IN  NTrim([i \in 1..Len(t) |->
               (t[i] \div 2^r)
               + (IF i < Len(t) THEN (t[i + 1] % 2^r) * 2^(RadixBits - r)
                  ELSE 0)])

\* a % 2^k
NLow(a, k) ==
  IF a = << >> THEN a
  ELSE
  LET d == k \div RadixBits
      r == k % RadixBits
  IN  IF d >= Len(a) THEN a
      ELSE NTrim(SubSeq(a, 1, d) \o << a[d + 1] % 2^r >>)

\* bit i of a, the least significant being bit 1
NBit(a, i) ==
  LET d == (i - 1) \div RadixBits
  IN  IF d >= Len(a) THEN 0
      ELSE (a[d + 1] \div 2^((i - 1) % RadixBits)) % 2

\* the digit d with d * b <= r < (d + 1) * b, for r < b * Radix and a
\* divisor b whose leading digit is at least Radix / 2: the quotient of
\* the two leading digits of r by the leading digit of b exceeds d by at
\* most 2
QDigit(r, b) ==
  LET n   == Len(b)
      top == NDigitAt(r, n + 1) * Radix + NDigitAt(r, n)
      est == IF top \div b[n] > Radix - 1 THEN Radix - 1 ELSE top \div b[n]
  IN  IF NCmp(r, b) < 0 THEN 0
      ELSE CHOOSE d \in { c \in (est - 2)..est : c >= 0 } :
             /\ NCmp(NMulDigit(b, d), r) <= 0
             /\ NCmp(NMulDigit(b, d + 1), r) > 0

\* long division, one digit of a at a time from the most significant
RECURSIVE NDivStep(_, _, _, _, _)
NDivStep(a, b, i, q, r) ==
  IF i = 0 THEN [q |-> NTrim(q), r |-> r]
  ELSE IF r = << >> /\ a[i] = 0 THEN NDivStep(a, b, i - 1, << 0 >> \o q, r)
  ELSE LET r2 == NTrim(<< a[i] >> \o r)
           d  == QDigit(r2, b)
       IN  IF d = 0 THEN NDivStep(a, b, i - 1, << 0 >> \o q, r2)
           ELSE NDivStep(a, b, i - 1, << d >> \o q,
                         NSub(r2, NMulDigit(b, d)))

\* a \div b and a % b for a >= b > 0, both already multiplied by the power
\* of two that brings the leading digit of b to at least Radix / 2: the
\* leading Len(b) - 1 digits of a are the first remainder
NDivNormal(a, b) ==
  IF Len(a) < Len(b) THEN [q |-> << >>, r |-> a]
  ELSE NDivStep(a, b, Len(a) - Len(b) + 1, << >>,
                SubSeq(a, Len(a) - Len(b) + 2, Len(a)))

\* a \div b and a % b for b # 0
NDivMod(a, b) ==
  LET t  == RadixBits - BitLen(b[Len(b)])
      qr == NDivNormal(NShl(a, t), NShl(b, t))
  IN  [q |-> qr.q, r |-> NShr(qr.r, t)]

DNaN     == [k |-> "nan",  s |-> 0, m |-> << >>, e |-> 0]
DInf(s)  == [k |-> "inf",  s |-> s, m |-> << >>, e |-> 0]
DZero(s) == [k |-> "zero", s |-> s, m |-> << >>, e |-> 0]

\* (-1)^s * (n * 2^e, plus less than one unit of n when sticky), rounded to
\* the nearest double, ties to even
\* the steps of DRound, each on the values the step before has computed:
\* the number of the mantissa m and the exponent e, infinite beyond MaxExp
DFinite(s, m, e) ==
  IF e > MaxExp THEN DInf(s) ELSE [k |-> "num", s |-> s, m |-> m, e |-> e]

\* a rounded mantissa of MantBits + 1 bits is 2^MantBits
DPack(s, q, e) ==
  IF q = << >> THEN DZero(s)
  ELSE IF NBitLen(q) > MantBits THEN DFinite(s, NShr(q, 1), e + 1)
  ELSE DFinite(s, q, e)

\* c is the sign of (the bits cut from the mantissa) - (half a unit of q)
DRoundUp(s, q, e, c, sticky) ==
  IF c > 0 \/ (c = 0 /\ (sticky \/ NBit(q, 1) = 1))
  THEN DPack(s, NAdd(q, << 1 >>), e)
  ELSE DPack(s, q, e)

\* sh bits are cut from n, or n is exact
DRoundAt(s, n, e, sticky, sh) ==
  IF sh > 0
  THEN DRoundUp(s, NShr(n, sh), e + sh,
                NCmp(NLow(n, sh), NShl(<< 1 >>, sh - 1)), sticky)
  ELSE DPack(s, NShl(n, 0 - sh), e + sh)

DRound(s, n, e, sticky) ==
  IF n = << >> THEN DZero(s)
  ELSE DRoundAt(s, n, e, sticky, Max2(NBitLen(n) - MantBits, MinExp - e))

\* the double nearest to n / d, for natural numbers n and d # 0
\* the quotient and the remainder qr of (n * 2^k) by d
DRatioOf(s, qr, e) == DRound(s, qr.q, e, qr.r # << >>)

DRatioAt(s, n, en, d, ed, k) ==
  DRatioOf(s, NDivMod(NShl(n, k), d), en - ed - k)

DRatio(s, n, en, d, ed) ==
  DRatioAt(s, n, en, d, ed, Max2(0, MantBits + 2 + NBitLen(d) - NBitLen(n)))

DFromInt(n) ==
  IF n < 0 THEN DRound(1, NFromInt(0 - n), 0, FALSE)
  ELSE DRound(0, NFromInt(n), 0, FALSE)

DNeg(a) == IF a.k = "nan" THEN a ELSE [a EXCEPT !.s = 1 - @]
DAbs(a) == IF a.k = "nan" THEN a ELSE [a EXCEPT !.s = 0]

\* the sign of |a| - |b|, for a and b that are not NaN
DMagCmp(a, b) ==
  LET rank(v) == IF v.k = "zero" THEN 0 ELSE IF v.k = "num" THEN 1 ELSE 2
  IN  IF rank(a) # rank(b) THEN (IF rank(a) < rank(b) THEN 0 - 1 ELSE 1)
      ELSE IF a.k # "num" THEN 0
      ELSE IF a.e # b.e THEN (IF a.e < b.e THEN 0 - 1 ELSE 1)
      ELSE NCmp(a.m, b.m)

DLt(a, b) ==
  IF a.k = "nan" \/ b.k = "nan" THEN FALSE
  ELSE IF a.k = "zero" /\ b.k = "zero" THEN FALSE
  ELSE IF a.s # b.s THEN a.s = 1
  ELSE IF a.s = 0 THEN DMagCmp(a, b) < 0
  ELSE DMagCmp(a, b) > 0

\* na * 2^e + nb * 2^e with the signs sa and sb, c being the sign of na - nb
DAddAligned(sa, na, sb, nb, e, c) ==
  IF sa = sb THEN DRound(sa, NAdd(na, nb), e, FALSE)
  ELSE IF c = 0 THEN DZero(0)
  ELSE IF c > 0 THEN DRound(sa, NSub(na, nb), e, FALSE)
  ELSE DRound(sb, NSub(nb, na), e, FALSE)

\* the sum of two numbers: the one far above the other absorbs it,
\* otherwise both are written with the smaller exponent e
DAddNum(a, b, e) ==
  IF a.e - b.e > MantBits + 11 THEN a
  ELSE IF b.e - a.e > MantBits + 11 THEN b
  ELSE DAddAligned(a.s, NShl(a.m, a.e - e), b.s, NShl(b.m, b.e - e), e,
                   NCmp(NShl(a.m, a.e - e), NShl(b.m, b.e - e)))

DAdd(a, b) ==
  CASE a.k = "num" /\ b.k = "num" ->
         DAddNum(a, b, IF a.e < b.e THEN a.e ELSE b.e)
    [] a.k = "nan" \/ b.k = "nan" -> DNaN
    [] a.k = "inf" /\ b.k = "inf" /\ a.s = b.s -> a
    [] a.k = "inf" /\ b.k = "inf" /\ a.s # b.s -> DNaN
    [] a.k = "inf" /\ b.k \in {"zero", "num"} -> a
    [] b.k = "inf" /\ a.k \in {"zero", "num"} -> b
    [] a.k = "zero" /\ b.k = "zero" ->
         DZero(IF a.s = 1 /\ b.s = 1 THEN 1 ELSE 0)
    [] a.k = "zero" /\ b.k = "num" -> b
    [] b.k = "zero" /\ a.k = "num" -> a

DSub(a, b) == DAdd(a, DNeg(b))

DMul(a, b) ==
  IF a.k = "num" /\ b.k = "num"
  THEN DRound((a.s + b.s) % 2, NMul(a.m, b.m), a.e + b.e, FALSE)
  ELSE IF a.k = "nan" \/ b.k = "nan" THEN DNaN
  ELSE IF a.k = "inf" \/ b.k = "inf"
       THEN (IF a.k = "zero" \/ b.k = "zero" THEN DNaN
             ELSE DInf((a.s + b.s) % 2))
  ELSE DZero((a.s + b.s) % 2)

DDiv(a, b) ==
  IF a.k = "num" /\ b.k = "num"
  THEN DRatio((a.s + b.s) % 2, a.m, a.e, b.m, b.e)
  ELSE IF a.k = "nan" \/ b.k = "nan" THEN DNaN
  ELSE IF a.k = "inf"
       THEN (IF b.k = "inf" THEN DNaN ELSE DInf((a.s + b.s) % 2))
  ELSE IF b.k = "inf" THEN DZero((a.s + b.s) % 2)
  ELSE IF b.k = "zero"
       THEN (IF a.k = "zero" THEN DNaN ELSE DInf((a.s + b.s) % 2))
  ELSE DZero((a.s + b.s) % 2)

(***************************************************************************)
(* Scalars.  A double is modelled as a fixed-point number: the integer n   *)
(* stands for n / Scale.  Results are rounded to the nearest unit; a       *)
(* result beyond MaxMag overflows to an infinity, and the invalid          *)
(* operations give NaN, as IEEE-754 arithmetic does.                       *)
(***************************************************************************)
Scale == 1000

PInf == MaxMag + 1
NInf == 0 - (MaxMag + 1)
NaN  == MaxMag + 2

Abs(n) == IF n < 0 THEN 0 - n ELSE n
Sgn(n) == IF n < 0 THEN 0 - 1 ELSE IF n > 0 THEN 1 ELSE 0

IsNaN(a) == a = NaN
IsInf(a) == a = PInf \/ a = NInf

\* an exact integer result, overflowing to an infinity
Sat(n) == IF n > MaxMag THEN PInf ELSE IF n < 0 - MaxMag THEN NInf ELSE n

\* n / d rounded to the nearest integer (d # 0)
RDiv(n, d) == Sgn(n) * Sgn(d) * ((Abs(n) + (Abs(d) \div 2)) \div Abs(d))

\* The operands of an operation are evaluated once, before it is applied:
\* each operation is a function of the values (p, q) of its operands.
FNeg(a) ==
  IF precision = "binary64" THEN DNeg(a)
  ELSE [p \in Int |-> IF IsNaN(p) THEN NaN ELSE 0 - p][a]

FAdd(a, b) ==
  IF precision = "binary64" THEN DAdd(a, b) ELSE
  [p \in Int, q \in Int |->
     IF IsNaN(p) \/ IsNaN(q) THEN NaN
     ELSE IF IsInf(p) /\ IsInf(q) THEN (IF p = q THEN p ELSE NaN)
     ELSE IF IsInf(p) THEN p
     ELSE IF IsInf(q) THEN q
     ELSE Sat(p + q)][a, b]

FSub(a, b) == FAdd(a, FNeg(b))

\* |a| * |b| / Scale rounded to the nearest unit, without leaving the range
\* of the integers of the checker
MulMag(a, b) ==
  LET bh == Abs(b) \div Scale
      bl == Abs(b) % Scale
  IN  IF bh > 0 /\ Abs(a) > MaxMag \div bh THEN MaxMag + 1
      ELSE Abs(a) * bh + ((Abs(a) * bl + (Scale \div 2)) \div Scale)

FMul(a, b) ==
  IF precision = "binary64" THEN DMul(a, b) ELSE
  [p \in Int, q \in Int |->
     IF IsNaN(p) \/ IsNaN(q) THEN NaN
     ELSE IF IsInf(p) \/ IsInf(q)
          THEN (IF p = 0 \/ q = 0 THEN NaN
                ELSE IF Sgn(p) * Sgn(q) > 0 THEN PInf ELSE NInf)
     ELSE Sat(Sgn(p) * Sgn(q) * MulMag(p, q))][a, b]

\* mutant of FDiv: a division by zero is caught and gives 0
FDiv_guarded(a, b) ==
  IF precision = "binary64" THEN DDiv(a, b) ELSE
  [p \in Int, q \in Int |->
     IF IsNaN(p) \/ IsNaN(q) THEN NaN
     ELSE IF IsInf(p) /\ IsInf(q) THEN NaN
     ELSE IF IsInf(p) THEN (IF Sgn(p) * Sgn(q) >= 0 THEN PInf ELSE NInf)
     ELSE IF IsInf(q) THEN 0
     ELSE IF q = 0 THEN 0
     ELSE Sat(RDiv(p * Scale, q))][a, b]

\* operator/ of the doubles
FDiv(a, b) ==
  IF precision = "binary64" THEN DDiv(a, b) ELSE
  [p \in Int, q \in Int |->
     IF IsNaN(p) \/ IsNaN(q) THEN NaN
     ELSE IF IsInf(p) /\ IsInf(q) THEN NaN
     ELSE IF IsInf(p) THEN (IF Sgn(p) * Sgn(q) >= 0 THEN PInf ELSE NInf)
     ELSE IF IsInf(q) THEN 0
     ELSE IF q = 0
          THEN (IF p = 0 THEN NaN ELSE IF p > 0 THEN PInf ELSE NInf)
     ELSE Sat(RDiv(p * Scale, q))][a, b]

\* std::abs
FAbs(a) ==
  IF precision = "binary64" THEN DAbs(a)
  ELSE [p \in Int |-> IF IsNaN(p) THEN NaN ELSE Abs(p)][a]

\* operator< : every comparison with a NaN is false
FLt(a, b) ==
  IF precision = "binary64" THEN DLt(a, b) ELSE
  [p \in Int, q \in Int |-> ~IsNaN(p) /\ ~IsNaN(q) /\ p < q][a, b]

\* the largest r in lo..hi with r * r <= n, by bisection
RECURSIVE ISqrt(_, _, _)
ISqrt(n, lo, hi) ==
  [p \in Int, l \in Int, h \in Int |->
     IF l >= h THEN l
     ELSE IF (l + h + 1) \div 2 <= p \div ((l + h + 1) \div 2)
          THEN ISqrt(p, (l + h + 1) \div 2, h)
          ELSE ISqrt(p, l, ((l + h + 1) \div 2) - 1)][n, lo, hi]

\* std::sqrt, rounded to the nearest unit
FSqrt(a) ==
  [p \in Int |->
     IF IsNaN(p) \/ p < 0 THEN NaN
     ELSE IF p = PInf THEN PInf
     ELSE LET n == p * Scale
              r == ISqrt(n, 0, MaxMag)
          IN  IF n - r * r > r THEN r + 1 ELSE r][a]

\* std::pow(b, k) for an iteration index k, by repeated squaring
RECURSIVE FPow(_, _)
FPow(b, k) ==
  [p \in Int, n \in Int |->
     IF n = 0 THEN Scale
     ELSE IF n % 2 = 0
          THEN [h \in Int |-> FMul(h, h)][FPow(p, n \div 2)]
          ELSE FMul(p, FPow(p, n - 1))][b, k]

\* an integer constant of the source as a scalar
Num(n) == IF precision = "binary64" THEN DFromInt(n) ELSE n * Scale

\* the smallest positive scalar: stands for every positive double below
\* one unit (1e-10, 1e-6, sqrt(machine epsilon))
Tiny == Scale \div Scale

\* valarray arithmetic is element by element; the operands are evaluated
\* once, before the operation is applied
VSqrt(v) ==
  [p \in Seq(Int) |-> [n \in 1..Len(p) |-> FSqrt(p[n])]][v]
VAdd(v, w) ==
  [p \in Seq(Int), q \in Seq(Int) |->
     [n \in 1..Len(p) |-> FAdd(p[n], q[n])]][v, w]
VSub(v, w) ==
  [p \in Seq(Int), q \in Seq(Int) |->
     [n \in 1..Len(p) |-> FSub(p[n], q[n])]][v, w]
VMul(v, w) ==
  [p \in Seq(Int), q \in Seq(Int) |->
     [n \in 1..Len(p) |-> FMul(p[n], q[n])]][v, w]
VDiv(v, w) ==
  [p \in Seq(Int), q \in Seq(Int) |->
     [n \in 1..Len(p) |-> FDiv(p[n], q[n])]][v, w]
VScale(a, v) ==
  [s \in Int, p \in Seq(Int) |-> [n \in 1..Len(p) |-> FMul(s, p[n])]][a, v]
VAddS(v, a) ==
  [p \in Seq(Int), s \in Int |-> [n \in 1..Len(p) |-> FAdd(p[n], s)]][v, a]
VZero(n) == [k \in 1..n |-> 0]

\* squared_norm_2: sum of pow(abs(v[i]), 2)
RECURSIVE squared_norm_2_from(_, _)
squared_norm_2_from(v, n) ==
  IF n = 0 THEN 0
  ELSE FAdd(squared_norm_2_from(v, n - 1), FMul(FAbs(v[n]), FAbs(v[n])))

squared_norm_2(v) ==
  [p \in Seq(Int) |-> squared_norm_2_from(p, Len(p))][v]

\* norm_2
norm_2(v) == FSqrt(squared_norm_2(v))

(***************************************************************************)
(* User callables.                                                         *)
(***************************************************************************)
\* square_root(x, f, df, c): f = x * x - c, df = 2 * x
square_root_f(x, c)  == FSub(FMul(x, x), c)

\* mutant of square_root_df: the factor 2 is lost
square_root_df_unscaled(x, c) == x

square_root_df(x, c) == FMul(Num(2), x)

\* Rosenbrock(x, f, df, c) on a vector of size 2
Rosenbrock_f(x, c) ==
  LET a == FSub(Num(1), x[1])
      b == FSub(x[2], FMul(x[1], x[1]))
  IN  FAdd(FMul(a, a), FMul(FMul(c, b), b))

Rosenbrock_df(x, c) ==
  LET x0 == x[1]
      x1 == x[2]
      t3 == FMul(FMul(FMul(FMul(Num(2), c), x0), x0), x0)
      t4 == FMul(FMul(FMul(Num(2), c), x0), x1)
  IN  << FMul(Num(2), FSub(FAdd(FAdd(Num(0 - 1), x0), t3), t4)),
         FMul(FMul(Num(2), c), FSub(x1, FMul(x0, x0))) >>

\* the user procedure called on the point x (a sequence of scalars, of
\* length 1 when the domain is a scalar) with the output slots
\* (wantF, wantDf): a null slot is left alone, here reported as 0 / << >>
User(fn, c, x, wantF, wantDf) ==
  [ f  |-> IF ~wantF THEN 0
           ELSE IF fn = "square_root" THEN square_root_f(x[1], c)
           ELSE Rosenbrock_f(x, c),
    df |-> IF ~wantDf THEN << >>
           ELSE IF fn = "square_root" THEN << square_root_df(x[1], c) >>
           ELSE Rosenbrock_df(x, c) ]

(***************************************************************************)
(* State.                                                                  *)
(***************************************************************************)
VARIABLES
  NDEBUG,     \* the build: TRUE when assert() is compiled out
  status,     \* "running", "aborted" (failed assert) or "crashed"
  impls,      \* the Impl objects made so far, each owned through _pimpl
  obj,        \* the caller's Function / Differentiable_Function variables
  heap,       \* the size_t cells made so far, owned through _f_counter /
              \* _df_counter; a freed cell reads Free
  calls,      \* history: per cell, the evaluations asked through its holders
  origin,     \* history: how each variable was produced, from which one, and
              \* whether initialize_counter ran on either of the two since
  last,       \* the last operation of the caller and what it returned
  pc,         \* position of the solver: "idle", "loop", "break", "done"
  sv,         \* arguments and locals of the solver call
  x,          \* the caller's iterate, passed by reference to the solver
  log,        \* records written to std::cerr by the current solver call
  ncalls,     \* number of solver calls started from a fresh point
  thr         \* position and registers of each thread evaluating through the
              \* caller's variables, when several threads do

objvars == << impls, obj, heap, calls, origin >>
solvars == << pc, sv, x, log, ncalls >>
vars == << precision, NDEBUG, status, impls, obj, heap, calls, origin, last,
           pc, sv, x, log, ncalls, thr >>

Inst  == 1..MaxInst

\* an unused variable, and a null shared_ptr
NoObj == [kind |-> "none", pimpl |-> 0, f_counter |-> 0, df_counter |-> 0]
Free  == 0 - 1
NoCalls == 0
NoOrigin == [how |-> "none", from |-> 0, reinit |-> FALSE]

FunctionForms == {"returns", "outref", "free_returns", "free_outref"}
DiffForms     == {"probe", "free_probe"}


(***************************************************************************)
(* Impl: the type-erased callable behind _pimpl.                           *)
(***************************************************************************)
\* the output slots handed to the user's combined procedure, as
\* << value slot is non-null, derivative slot is non-null >>; the Impl of a
\* plain callable has no combined procedure to call
NoSlots == << >>

\* mutant of Impl_slots: f() asks for the derivative as well
Impl_slots_f_both(im, entry) ==
  IF im.form \notin DiffForms THEN NoSlots
  ELSE IF entry = "f"  THEN << TRUE, TRUE >>
  ELSE IF entry = "df" THEN << FALSE, TRUE >>
  ELSE << TRUE, TRUE >>

Impl_slots(im, entry) ==
  IF im.form \notin DiffForms THEN NoSlots
  ELSE IF entry = "f"  THEN << TRUE, FALSE >>     \* _f(x, &y, nullptr)
  ELSE IF entry = "df" THEN << FALSE, TRUE >>     \* _f(x, nullptr, &df)
  ELSE << TRUE, TRUE >>                           \* _f(x, &y, &df)

\* the free-procedure constructors delegate to the lambda constructors, with
\* the extra arguments bound by the lambda
FormOfImpl(form) ==
  IF form = "free_returns" \/ form = "free_outref" THEN "outref"
  ELSE IF form = "free_probe" THEN "probe"
  ELSE form

\* mutant of Impl_f: the Impl of the output-reference form calls the
\* callable on a temporary, and y keeps the value it had
Impl_f_outref_unwritten(im, xx) ==
  IF FormOfImpl(im.form) = "probe"
  THEN User(im.fn, im.c, xx, Impl_slots(im, "f")[1], Impl_slots(im, "f")[2]).f
  ELSE IF FormOfImpl(im.form) = "returns"
  THEN User(im.fn, im.c, xx, TRUE, FALSE).f
  ELSE 0

\* Function::Interface::f of the Impl made by the constructors
Impl_f(im, xx) ==
  IF FormOfImpl(im.form) = "probe"
  THEN User(im.fn, im.c, xx, Impl_slots(im, "f")[1], Impl_slots(im, "f")[2]).f
  ELSE IF FormOfImpl(im.form) = "returns"
  THEN User(im.fn, im.c, xx, TRUE, FALSE).f    \* y = _f(x);
  ELSE User(im.fn, im.c, xx, TRUE, FALSE).f    \* _f(x, y);

\* Diff_Interface::f_df
Impl_f_df(im, xx) ==
  User(im.fn, im.c, xx, Impl_slots(im, "f_df")[1], Impl_slots(im, "f_df")[2])

\* Diff_Interface::df
Impl_df(im, xx) ==
  User(im.fn, im.c, xx, Impl_slots(im, "df")[1], Impl_slots(im, "df")[2]).df

(***************************************************************************)
(* Counter cells (std::shared_ptr<size_t>).                                *)
(***************************************************************************)
\* std::make_shared<size_t>(0): the next cell, holding 0
Alloc(h) == Append(h, 0)

Holds(o, c) == \E i \in Inst : o[i].f_counter = c \/ o[i].df_counter = c

\* a cell is freed when its last owner lets go of it
Release(o, h, c) ==
  IF c # 0 /\ ~Holds(o, c) THEN [h EXCEPT ![c] = Free] ELSE h

\* mutant of Bump: the increment is made on a copy of the cell's value
Bump_lost(h, c) == h

\* if (_counter) ++(*_counter);
Bump(h, c) == IF c # 0 THEN [h EXCEPT ![c] = @ + 1] ELSE h

\* mutant of Count_f: the evaluation is not counted
Count_f_uncounted(h, ob) == h

\* the counting done by f, df and f_df of an instance ob
Count_f(h, ob)  == Bump(h, ob.f_counter)

\* mutant of Count_df: the gradient is counted twice
Count_df_twice(h, ob) == Bump(Bump(h, ob.df_counter), ob.df_counter)

Count_df(h, ob) == Bump(h, ob.df_counter)

\* mutant of Count_f_df: the derivative counter is forgotten
Count_f_df_value_only(h, ob) == Bump(h, ob.f_counter)

Count_f_df(h, ob) == Bump(Bump(h, ob.f_counter), ob.df_counter)

\* history: one more evaluation was asked through a holder of the cell
Note(cl, c) == IF c # 0 THEN [cl EXCEPT ![c] = @ + 1] ELSE cl

Forget(cl, h) ==
  [c \in 1..Len(h) |->
     IF h[c] = Free \/ c > Len(cl) THEN NoCalls ELSE cl[c]]

Idle == status = "running" /\ pc \in {"idle", "done"}

\* the threads of the caller, and a thread that is not inside a call
Threads == {1, 2}
AtRest == [pc |-> "rest", op |-> "none", reg |-> 0, y |-> 0,
           left |-> MaxThreadEvals]

Room(c) == IF c = 0 THEN TRUE ELSE heap[c] < MaxCount

(***************************************************************************)
(* Construction, copy and conversion.                                      *)
(***************************************************************************)
\* Function(F&& f) and Function(f, args...)
Function_new(i, form, fn, c) ==
  /\ Idle
  /\ obj[i].kind = "none"
  /\ Len(impls) < MaxImpl
  /\ impls' = Append(impls, [form |-> form, fn |-> fn, c |-> c])
  /\ obj' = [obj EXCEPT ![i] = [kind |-> "Function", pimpl |-> Len(impls) + 1,
                                f_counter |-> 0, df_counter |-> 0]]
  /\ origin' = [origin EXCEPT ![i] = [how |-> "wrap", from |-> 0, reinit |-> FALSE]]
  /\ last' = [op |-> "Function", inst |-> i, out |-> 0, d |-> << >>,
              slots |-> NoSlots]
  /\ UNCHANGED << precision, thr, NDEBUG, status, heap, calls, solvars >>

\* Differentiable_Function(F&& f) and Differentiable_Function(f, args...)
Differentiable_Function_new(i, form, fn, c) ==
  /\ Idle
  /\ obj[i].kind = "none"
  /\ Len(impls) < MaxImpl
  /\ impls' = Append(impls, [form |-> form, fn |-> fn, c |-> c])
  /\ obj' = [obj EXCEPT ![i] = [kind |-> "Differentiable_Function",
                                pimpl |-> Len(impls) + 1,
                                f_counter |-> 0, df_counter |-> 0]]
  /\ origin' = [origin EXCEPT ![i] = [how |-> "wrap", from |-> 0, reinit |-> FALSE]]
  /\ last' = [op |-> "Differentiable_Function", inst |-> i, out |-> 0,
              d |-> << >>, slots |-> NoSlots]
  /\ UNCHANGED << precision, thr, NDEBUG, status, heap, calls, solvars >>

\* mutant of Copy: a copy constructor that leaves the counter behind
Copy_unshared(i, j) ==
  /\ Idle
  /\ i # j
  /\ obj[i].kind # "none"
  /\ obj[j].kind = "none"
  /\ obj' = [obj EXCEPT ![j] = [obj[i] EXCEPT !.f_counter = 0,
                                              !.df_counter = 0]]
  /\ origin' = [origin EXCEPT ![j] = [how |-> "copy", from |-> i,
                                      reinit |-> FALSE]]
  /\ last' = [op |-> "copy", inst |-> j, out |-> 0, d |-> << >>,
              slots |-> NoSlots]
  /\ UNCHANGED << precision, thr, NDEBUG, status, impls, heap, calls, solvars >>

\* the implicit copy constructor: every member is copied
Copy(i, j) ==
  /\ Idle
  /\ i # j
  /\ obj[i].kind # "none"
  /\ obj[j].kind = "none"
  /\ obj' = [obj EXCEPT ![j] = obj[i]]
  /\ origin' = [origin EXCEPT ![j] = [how |-> "copy", from |-> i,
                                      reinit |-> FALSE]]
  /\ last' = [op |-> "copy", inst |-> j, out |-> 0, d |-> << >>,
              slots |-> NoSlots]
  /\ UNCHANGED << precision, thr, NDEBUG, status, impls, heap, calls, solvars >>

\* mutant of as_function: return {_pimpl};
as_function_no_counter(i, j) ==
  /\ Idle
  /\ i # j
  /\ obj[i].kind = "Differentiable_Function"
  /\ obj[j].kind = "none"
  /\ obj' = [obj EXCEPT ![j] = [kind |-> "Function", pimpl |-> obj[i].pimpl,
                                f_counter |-> 0, df_counter |-> 0]]
  /\ origin' = [origin EXCEPT ![j] = [how |-> "downgrade", from |-> i,
                                      reinit |-> FALSE]]
  /\ last' = [op |-> "as_function", inst |-> j, out |-> 0, d |-> << >>,
              slots |-> NoSlots]
  /\ UNCHANGED << precision, thr, NDEBUG, status, impls, heap, calls, solvars >>

\* operator function_type() const, also reached through as_function()
as_function(i, j) ==
  /\ Idle
  /\ i # j
  /\ obj[i].kind = "Differentiable_Function"
  /\ obj[j].kind = "none"
  /\ obj' = [obj EXCEPT ![j] = [kind |-> "Function", pimpl |-> obj[i].pimpl,
                                f_counter |-> obj[i].f_counter,
                                df_counter |-> 0]]
  /\ origin' = [origin EXCEPT ![j] = [how |-> "downgrade", from |-> i,
                                      reinit |-> FALSE]]
  /\ last' = [op |-> "as_function", inst |-> j, out |-> 0, d |-> << >>,
              slots |-> NoSlots]
  /\ UNCHANGED << precision, thr, NDEBUG, status, impls, heap, calls, solvars >>


(***************************************************************************)
(* Counters.                                                               *)
(***************************************************************************)
\* mutant of Renew: a counter is made only where there is none
Renew_once(oh, i, field) ==
  IF oh[1][i][field] # 0 THEN oh
  ELSE << [oh[1] EXCEPT ![i][field] = Len(oh[2]) + 1], Alloc(oh[2]) >>

\* _counter = std::make_shared<size_t>(0), for the member named field
Renew(oh, i, field) ==
  LET o   == oh[1]
      h   == Alloc(oh[2])
      old == o[i][field]
      o1  == [o EXCEPT ![i][field] = Len(h)]
  IN  << o1, Release(o1, h, old) >>

\* history: what the counter c read when initialize_counter let go of it
\* (Free when there was none)
Was(c) == IF c = 0 THEN Free ELSE heap[c]

\* history: initialize_counter ran on the variable i
Reinit(og, i) ==
  [k \in Inst |->
     IF og[k].from # 0 /\ (k = i \/ og[k].from = i)
     THEN [og[k] EXCEPT !.reinit = TRUE] ELSE og[k]]

\* Function::initialize_counter
Function_initialize_counter(i) ==
  /\ Idle
  /\ obj[i].kind = "Function"
  /\ Len(heap) + 1 <= MaxCells
  /\ LET oh == Renew(<< obj, heap >>, i, "f_counter")
     IN  /\ obj' = oh[1]
         /\ heap' = oh[2]
         /\ calls' = Forget(calls, oh[2])
  /\ origin' = Reinit(origin, i)
  /\ last' = [op |-> "initialize_counter", inst |-> i, out |-> 0,
              d |-> << Was(obj[i].f_counter) >>,
              slots |-> NoSlots]
  /\ UNCHANGED << precision, thr, NDEBUG, status, impls, solvars >>

\* Differentiable_Function::initialize_counter
Differentiable_Function_initialize_counter(i) ==
  /\ Idle
  /\ obj[i].kind = "Differentiable_Function"
  /\ Len(heap) + 2 <= MaxCells
  /\ LET oh == Renew(Renew(<< obj, heap >>, i, "f_counter"), i, "df_counter")
     IN  /\ obj' = oh[1]
         /\ heap' = oh[2]
         /\ calls' = Forget(calls, oh[2])
  /\ origin' = Reinit(origin, i)
  /\ last' = [op |-> "initialize_counter", inst |-> i, out |-> 0,
              d |-> << Was(obj[i].f_counter), Was(obj[i].df_counter) >>,
              slots |-> NoSlots]
  /\ UNCHANGED << precision, thr, NDEBUG, status, impls, solvars >>

\* assert(_counter); return *_counter;   for the counter pointer c
ReadCounter(i, c, name) ==
  /\ Idle
  /\ IF c # 0
     THEN /\ last' = [op |-> name, inst |-> i, out |-> heap[c], d |-> << >>,
                      slots |-> NoSlots]
          /\ status' = status
     ELSE IF ~NDEBUG
     THEN \* the assertion fails: abort()
          /\ last' = [op |-> name, inst |-> i, out |-> 0, d |-> << >>,
                      slots |-> NoSlots]
          /\ status' = "aborted"
     ELSE \* no assertion: a null pointer is dereferenced
          \/ /\ last' = [op |-> name, inst |-> i, out |-> 0, d |-> << >>,
                         slots |-> NoSlots]
             /\ status' = "crashed"
          \/ \E g \in 0..MaxCount :
               /\ last' = [op |-> name, inst |-> i, out |-> g, d |-> << >>,
                           slots |-> NoSlots]
               /\ status' = status
  /\ UNCHANGED << precision, thr, NDEBUG, objvars, solvars >>

\* Function::f_counter
Function_f_counter(i) ==
  /\ obj[i].kind = "Function"
  /\ ReadCounter(i, obj[i].f_counter, "f_counter")

\* Differentiable_Function::f_counter
Differentiable_Function_f_counter(i) ==
  /\ obj[i].kind = "Differentiable_Function"
  /\ ReadCounter(i, obj[i].f_counter, "f_counter")

\* Differentiable_Function::df_counter
Differentiable_Function_df_counter(i) ==
  /\ obj[i].kind = "Differentiable_Function"
  /\ ReadCounter(i, obj[i].df_counter, "df_counter")

(***************************************************************************)
(* Evaluation.                                                             *)
(***************************************************************************)
\* the points the caller evaluates a wrapped callable at
Points(fn) ==
  IF fn = "square_root" THEN { << Num(2) >>, << 0 >> }
  ELSE { << Num(1), Num(1) >>, << (12 * Scale) \div 10, (12 * Scale) \div 10 >> }

PointsOf(i) ==
  IF obj[i].kind = "none" THEN {} ELSE Points(impls[obj[i].pimpl].fn)

\* Function::f
Function_f(i, xx) ==
  /\ Idle
  /\ obj[i].kind = "Function"
  /\ Room(obj[i].f_counter)
  /\ heap' = Count_f(heap, obj[i])
  /\ calls' = Note(calls, obj[i].f_counter)
  /\ last' = [op |-> "f", inst |-> i, out |-> Impl_f(impls[obj[i].pimpl], xx),
              d |-> << >>,
              slots |-> Impl_slots(impls[obj[i].pimpl], "f")]
  /\ UNCHANGED << precision, thr, NDEBUG, status, impls, obj, origin, solvars >>

\* Differentiable_Function::f
Differentiable_Function_f(i, xx) ==
  /\ Idle
  /\ obj[i].kind = "Differentiable_Function"
  /\ Room(obj[i].f_counter)
  /\ heap' = Count_f(heap, obj[i])
  /\ calls' = Note(calls, obj[i].f_counter)
  /\ last' = [op |-> "f", inst |-> i, out |-> Impl_f(impls[obj[i].pimpl], xx),
              d |-> << >>,
              slots |-> Impl_slots(impls[obj[i].pimpl], "f")]
  /\ UNCHANGED << precision, thr, NDEBUG, status, impls, obj, origin, solvars >>

\* Differentiable_Function::f_df
Differentiable_Function_f_df(i, xx) ==
  /\ Idle
  /\ obj[i].kind = "Differentiable_Function"
  /\ Room(obj[i].f_counter)
  /\ Room(obj[i].df_counter)
  /\ heap' = Count_f_df(heap, obj[i])
  /\ calls' = Note(Note(calls, obj[i].f_counter), obj[i].df_counter)
  /\ LET r == Impl_f_df(impls[obj[i].pimpl], xx)
     IN  last' = [op |-> "f_df", inst |-> i, out |-> r.f, d |-> r.df,
              slots |-> Impl_slots(impls[obj[i].pimpl], "f_df")]
  /\ UNCHANGED << precision, thr, NDEBUG, status, impls, obj, origin, solvars >>

\* Differentiable_Function::df
Differentiable_Function_df(i, xx) ==
  /\ Idle
  /\ obj[i].kind = "Differentiable_Function"
  /\ Room(obj[i].df_counter)
  /\ heap' = Count_df(heap, obj[i])
  /\ calls' = Note(calls, obj[i].df_counter)
  /\ last' = [op |-> "df", inst |-> i, out |-> 0,
              d |-> Impl_df(impls[obj[i].pimpl], xx),
              slots |-> Impl_slots(impls[obj[i].pimpl], "df")]
  /\ UNCHANGED << precision, thr, NDEBUG, status, impls, obj, origin, solvars >>

(***************************************************************************)
(* Solver calls: arguments, locals and history of the call in progress.    *)
(***************************************************************************)
\* Adam_Configuration<SCALAR_TYPE>: the defaults
AdamDefaults ==
  [ maximimum_iterations |-> 100,
    alpha_schedule       |-> "constant",
    beta_1               |-> (9 * Scale) \div 10,
    beta_2               |-> (999 * Scale) \div 1000,
    absolute_epsilon     |-> Tiny,
    verbose              |-> FALSE,
    internal_epsilon     |-> Tiny ]

\* the keys configure_Adam hands to take_optional_argument_ref
AdamTaken ==
  { "alpha_schedule", "beta_1", "beta_2", "maximimum_iterations",
    "absolute_epsilon", "verbose" }

\* mutant of AssertOf: the iteration cap is a Named_Assert_Type too
AssertOf_cap_positive(key) ==
  IF key \in {"beta_1", "beta_2", "internal_epsilon"}
  THEN "Assert_In_01_Strict"
  ELSE IF key \in {"absolute_epsilon", "maximimum_iterations"}
  THEN "Assert_Positive"
  ELSE "none"

\* the assertion the named type of a key carries: Named_Assert_Type for the
\* decay rates, the regularizer and the threshold, Named_Type (none) for
\* the iteration cap and the verbosity, Named_Std_Function for the schedule
AssertOf(key) ==
  IF key \in {"beta_1", "beta_2", "internal_epsilon"}
  THEN "Assert_In_01_Strict"
  ELSE IF key = "absolute_epsilon" THEN "Assert_Positive"
  ELSE "none"

\* assert(t > 0);
Assert_Positive(t) == FLt(0, t)

\* assert(t > 0); assert(t < 1);
Assert_In_01_Strict(t) == FLt(0, t) /\ FLt(t, Num(1))

\* the assertions of the values a caller supplies by name all hold
AssertsHold(user_args) ==
  \A key \in user_args.given :
    IF AssertOf(key) = "Assert_In_01_Strict"
    THEN Assert_In_01_Strict(user_args.val[key])
    ELSE IF AssertOf(key) = "Assert_Positive"
    THEN Assert_Positive(user_args.val[key])
    ELSE TRUE

\* a call that names no argument
NoArgs == [given |-> {}, val |-> AdamDefaults]

\* mutant of configure_Adam: beta_2 is read from the slot of beta_1
configure_Adam_crossed(user_args) ==
  [ key \in DOMAIN AdamDefaults |->
      IF key = "beta_2" /\ "beta_1" \in user_args.given
      THEN user_args.val["beta_1"]
      ELSE IF key \in AdamTaken /\ key \in user_args.given
      THEN user_args.val[key] ELSE AdamDefaults[key] ]

\* configure_Adam: the defaults, overridden by the arguments given
configure_Adam(user_args) ==
  [ key \in DOMAIN AdamDefaults |->
      IF key \in AdamTaken /\ key \in user_args.given
      THEN user_args.val[key] ELSE AdamDefaults[key] ]

\* the step-size schedules: Adam_alpha_constant_schedule(0.01), and
\* 1 / sqrt(t) of the example
alpha_schedule(name, k) ==
  IF name = "constant" THEN Scale \div 100
  ELSE FDiv(Num(1), FSqrt(Num(k)))

NoEvals == [f |-> 0, df |-> 0, f_df |-> 0]

\* history: what the call this one repeats left in x and returned
NoPrev == [x |-> << >>, ret |-> FALSE]

NoSolver ==
  [ alg |-> "none", inst |-> 0, epsilon |-> 0, max_iter |-> 0,
    cfg |-> AdamDefaults, iter |-> 0, has_converged |-> FALSE,
    delta_x |-> 0, m_k |-> << >>, v_k |-> << >>,
    \* history of the call
    given |-> {}, asked |-> AdamDefaults,
    x_start |-> << >>, rerun |-> 0, repeat |-> 0, prev |-> NoPrev,
    steps |-> 0, hits |-> {},
    evals |-> NoEvals, updates |-> 0 ]

\* a call that repeats the previous one, which returned true, from the
\* iterate it left
IsRerun(alg, i, epsilon, max_iter, cfg, x0) ==
  /\ pc = "done"
  /\ sv.alg = alg
  /\ sv.inst = i
  /\ sv.has_converged
  /\ sv.epsilon = epsilon
  /\ sv.max_iter = max_iter
  /\ sv.cfg = cfg
  /\ x0 = x

\* a call that repeats the previous one from the point that one started
\* from, which is not where it left x
IsRepeat(alg, i, epsilon, max_iter, cfg, x0) ==
  /\ pc = "done"
  /\ sv.alg = alg
  /\ sv.inst = i
  /\ sv.rerun = 0
  /\ sv.epsilon = epsilon
  /\ sv.max_iter = max_iter
  /\ sv.cfg = cfg
  /\ x0 = sv.x_start
  /\ x0 # x

\* mutant of Moments: the moment vectors have static storage
Moments_static(alg, n) ==
  IF alg = "Adam" /\ sv.alg = "Adam" /\ Len(sv.m_k) = n
  THEN [m_k |-> sv.m_k, v_k |-> sv.v_k]
  ELSE IF alg = "Adam" THEN [m_k |-> VZero(n), v_k |-> VZero(n)]
  ELSE [m_k |-> << >>, v_k |-> << >>]

\* vector_type m_k(domain_size); m_k = 0;  and the same for v_k: locals of
\* the call
Moments(alg, n) ==
  IF alg = "Adam" THEN [m_k |-> VZero(n), v_k |-> VZero(n)]
  ELSE [m_k |-> << >>, v_k |-> << >>]

FnOf(i) == IF obj[i].kind = "none" THEN "none" ELSE impls[obj[i].pimpl].fn

\* a point x where x * x - c = -2 * x to the unit, for c = 2: the two
\* values Steffensen takes, at x and at x + f = -x, are equal
StallPoint == << (732 * Scale) \div 1000 >>

\* the iterates a call may start from: a fresh point, or the caller's x as
\* the previous call left it
Starts(i) ==
  PointsOf(i) \cup (IF FnOf(i) = "square_root" THEN {StallPoint} ELSE {})
              \cup (IF pc = "done" THEN {x} ELSE {})

\* the variables a solver can be called on now
Callable(fn) ==
  IF Idle /\ (ncalls < MaxCalls \/ sv.rerun < MaxReruns)
  THEN { i \in Inst : FnOf(i) = fn } ELSE {}

Enter(alg, i, epsilon, max_iter, cfg, x0, user_args) ==
  /\ Idle
  /\ IF IsRerun(alg, i, epsilon, max_iter, cfg, x0)
     THEN sv.rerun < MaxReruns /\ ncalls' = ncalls
     ELSE IF IsRepeat(alg, i, epsilon, max_iter, cfg, x0)
     THEN sv.repeat < MaxRepeats /\ ncalls' = ncalls
     ELSE ncalls < MaxCalls /\ ncalls' = ncalls + 1
  /\ Len(x0) = (IF alg = "Adam" THEN 2 ELSE 1)
  /\ sv' = [NoSolver EXCEPT
              !.alg = alg, !.inst = i, !.epsilon = epsilon,
              !.max_iter = max_iter, !.cfg = cfg, !.iter = 1,
              !.m_k = Moments(alg, Len(x0)).m_k,
              !.v_k = Moments(alg, Len(x0)).v_k,
              !.given = user_args.given, !.asked = user_args.val,
              !.x_start = x0,
              !.rerun = IF IsRerun(alg, i, epsilon, max_iter, cfg, x0)
                        THEN sv.rerun + 1 ELSE 0,
              !.repeat = IF IsRepeat(alg, i, epsilon, max_iter, cfg, x0)
                         THEN sv.repeat + 1 ELSE 0,
              !.prev = IF IsRepeat(alg, i, epsilon, max_iter, cfg, x0)
                       THEN [x |-> x, ret |-> sv.has_converged]
                       ELSE NoPrev]
  /\ x' = x0
  /\ log' = << >>
  /\ pc' = "loop"
  /\ last' = [op |-> alg, inst |-> i, out |-> 0, d |-> << >>,
              slots |-> NoSlots]
  /\ UNCHANGED << precision, thr, NDEBUG, status, objvars >>

\* A key that configure_Adam did not hand to take_optional_argument_ref
\* has no slot to go to: the call is refused when the program is built, or
\* the value is left unused.
UntakenKey == {"rejected", "ignored"}

\* what becomes of the values supplied by name: "rejected" (not built),
\* "aborted" (an assert of a named type failed in a build that keeps
\* assert) or "stored"
Supplied(user_args, untaken) ==
  IF ~(user_args.given \subseteq AdamTaken) /\ untaken = "rejected"
  THEN "rejected"
  ELSE IF ~NDEBUG /\ ~AssertsHold(user_args) THEN "aborted"
  ELSE "stored"

\* the call does not take place
Refuse(alg, user_args, outcome) ==
  /\ Idle
  /\ ncalls < MaxCalls
  /\ status' = outcome
  /\ sv' = [NoSolver EXCEPT !.alg = alg, !.given = user_args.given,
                            !.asked = user_args.val]
  /\ pc' = "idle"
  /\ last' = [op |-> alg, inst |-> 0, out |-> 0, d |-> << >>,
              slots |-> NoSlots]
  /\ UNCHANGED << precision, thr, NDEBUG, objvars, x, log, ncalls >>

\* configure_Adam(objective_function, x_init, user_args...) on its own
configure_Adam_call(user_args) ==
  \E untaken \in UntakenKey :
    IF Supplied(user_args, untaken) = "stored"
    THEN /\ Idle
         /\ ncalls < MaxCalls
         /\ ncalls' = ncalls + 1
         /\ sv' = [NoSolver EXCEPT !.alg = "configure_Adam",
                                   !.cfg = configure_Adam(user_args),
                                   !.given = user_args.given,
                                   !.asked = user_args.val]
         /\ pc' = "idle"
         /\ last' = [op |-> "configure_Adam", inst |-> 0, out |-> 1,
                     d |-> << >>, slots |-> NoSlots]
         /\ UNCHANGED << precision, thr, NDEBUG, status, objvars, x, log >>
    ELSE Refuse("configure_Adam", user_args, Supplied(user_args, untaken))

\* return has_converged;
Leave ==
  /\ pc' = "done"
  /\ last' = [op |-> sv.alg, inst |-> sv.inst,
              out |-> IF sv.has_converged THEN 1 ELSE 0, d |-> << >>,
              slots |-> NoSlots]
  /\ UNCHANGED << precision, thr, NDEBUG, status, objvars, sv, x, log, ncalls >>

(***************************************************************************)
(* Newton and Steffensen.                                                  *)
(***************************************************************************)
\* mutant of show_iteration: the line is written over the previous one
show_iteration_overwrites(lg, iter, xx, f) ==
  << [iter |-> iter, x |-> xx, f |-> f, norm |-> 0] >>

\* show_iteration(iter, x, f): one line on std::cerr, here one record
\* added to those written so far
show_iteration(lg, iter, xx, f) ==
  Append(lg, [iter |-> iter, x |-> xx, f |-> f, norm |-> 0])

\* the double nearest to 1e-10
OneE_10 ==
  DRatio(0, << 1 >>, 0, NMul(NFromInt(100000), NFromInt(100000)), 0)

\* double epsilon = 1e-10, size_t max_iter = 20
DefaultEpsilon == IF precision = "binary64" THEN OneE_10 ELSE Tiny
DefaultMaxIter == 20

Epsilons == { DefaultEpsilon, Scale \div 10 }
MaxIters == 0..MaxIter \cup { DefaultMaxIter }

\* mutant of RootLoopCond: iter < max_iter
RootLoopCond_strict(iter, max_iter) == iter < max_iter

\* for (size_t iter = 1; iter <= max_iter; ++iter)
RootLoopCond(iter, max_iter) == iter <= max_iter

\* mutant of RootConverged: the step is compared with its sign
RootConverged_signed(delta_x, epsilon) == FLt(delta_x, epsilon)

\* has_converged = std::abs(delta_x) < epsilon;
RootConverged(delta_x, epsilon) == FLt(FAbs(delta_x), epsilon)

\* Newton(f_obj, x, epsilon, max_iter)
Newton_call(i, x0, epsilon, max_iter) ==
  /\ obj[i].kind = "Differentiable_Function"
  /\ FnOf(i) = "square_root"
  /\ Enter("Newton", i, epsilon, max_iter, AdamDefaults, x0, NoArgs)

\* one iteration of the loop of Newton
Newton_iter ==
  /\ status = "running"
  /\ pc = "loop"
  /\ sv.alg = "Newton"
  /\ RootLoopCond(sv.iter, sv.max_iter)
  \* the locals, each computed once, in the order of the statements
  /\ \E ob \in { obj[sv.inst] } :
     \E r \in { Impl_f_df(impls[ob.pimpl], x) } :
     \E delta_x \in { FDiv(FNeg(r.f), r.df[1]) } :
     \E conv \in { RootConverged(delta_x, sv.epsilon) } :
     \E xn \in { << FAdd(x[1], delta_x) >> } :
         /\ heap' = Count_f_df(heap, ob)
         /\ calls' = Note(Note(calls, ob.f_counter), ob.df_counter)
         /\ x' = xn
         /\ log' = show_iteration(log, sv.iter, xn, r.f)
         /\ sv' = [sv EXCEPT
                     !.has_converged = conv,
                     !.delta_x = delta_x,
                     !.iter = IF conv THEN @ ELSE @ + 1,
                     !.steps = @ + 1,
                     !.hits = IF FLt(FAbs(delta_x), sv.epsilon)
                              THEN @ \cup {sv.iter} ELSE @,
                     !.evals.f_df = @ + 1,
                     !.updates = @ + 1]
         /\ pc' = IF conv THEN "break" ELSE "loop"
  /\ UNCHANGED << precision, thr, NDEBUG, status, impls, obj, origin, last, ncalls >>

Newton_return ==
  /\ status = "running"
  /\ sv.alg = "Newton"
  /\ \/ pc = "break"
     \/ pc = "loop" /\ ~RootLoopCond(sv.iter, sv.max_iter)
  /\ Leave

\* Steffensen(f_obj, x, epsilon, max_iter)
Steffensen_call(i, x0, epsilon, max_iter) ==
  /\ obj[i].kind = "Function"
  /\ FnOf(i) = "square_root"
  /\ Enter("Steffensen", i, epsilon, max_iter, AdamDefaults, x0, NoArgs)

\* one iteration of the loop of Steffensen
Steffensen_iter ==
  /\ status = "running"
  /\ pc = "loop"
  /\ sv.alg = "Steffensen"
  /\ RootLoopCond(sv.iter, sv.max_iter)
  \* the locals, each computed once, in the order of the statements
  /\ \E ob \in { obj[sv.inst] } :
     \E f \in { Impl_f(impls[ob.pimpl], x) } :
     \E g \in { Impl_f(impls[ob.pimpl], << FAdd(x[1], f) >>) } :
     \E delta_x \in { FDiv(FMul(FNeg(f), f), FSub(g, f)) } :
     \E conv \in { RootConverged(delta_x, sv.epsilon) } :
     \E xn \in { << FAdd(x[1], delta_x) >> } :
         /\ heap' = Count_f(Count_f(heap, ob), ob)
         /\ calls' = Note(Note(calls, ob.f_counter), ob.f_counter)
         /\ x' = xn
         /\ log' = show_iteration(log, sv.iter, xn, f)
         /\ sv' = [sv EXCEPT
                     !.has_converged = conv,
                     !.delta_x = delta_x,
                     !.iter = IF conv THEN @ ELSE @ + 1,
                     !.steps = @ + 1,
                     !.hits = IF FLt(FAbs(delta_x), sv.epsilon)
                              THEN @ \cup {sv.iter} ELSE @,
                     !.evals.f = @ + 2,
                     !.updates = @ + 1]
         /\ pc' = IF conv THEN "break" ELSE "loop"
  /\ UNCHANGED << precision, thr, NDEBUG, status, impls, obj, origin, last, ncalls >>

Steffensen_return ==
  /\ status = "running"
  /\ sv.alg = "Steffensen"
  /\ \/ pc = "break"
     \/ pc = "loop" /\ ~RootLoopCond(sv.iter, sv.max_iter)
  /\ Leave

(***************************************************************************)
(* Adam_optimize.                                                          *)
(***************************************************************************)
\* mutant of AdamLoopCond: k <= maximimum_iterations
AdamLoopCond_inclusive(k, maximimum_iterations) == k <= maximimum_iterations

\* for (size_t k = 1; k < configuration.maximimum_iterations.value(); ++k)
AdamLoopCond(k, maximimum_iterations) == k < maximimum_iterations

\* mutant of AdamConverged: the squared norm is compared
AdamConverged_squared(grad_norm, absolute_epsilon) ==
  FLt(FMul(grad_norm, grad_norm), absolute_epsilon)

\* has_converged = grad_norm < configuration.absolute_epsilon.value();
AdamConverged(grad_norm, absolute_epsilon) == FLt(grad_norm, absolute_epsilon)

\* mutant of AdamReports: the report no longer depends on verbose
AdamReports_always(has_converged, verbose, k) ==
  has_converged \/ (k % 10 = 1)

\* if (has_converged or (configuration.verbose.value() and (k % 10 == 1)))
AdamReports(has_converged, verbose, k) ==
  has_converged \/ (verbose /\ (k % 10 = 1))

\* the update of the moments and of the iterate
Adam_update(xx, m_k, v_k, k, grad, cfg) ==
  [g \in Seq(Int) |->
     LET one_b1 == FSub(Num(1), cfg.beta_1)
         one_b2 == FSub(Num(1), cfg.beta_2)
         m      == VAdd(VScale(cfg.beta_1, m_k), VScale(one_b1, g))
         v      == VAdd(VScale(cfg.beta_2, v_k), VMul(VScale(one_b2, g), g))
         hat_m  == VScale(FDiv(Num(1), FSub(Num(1), FPow(cfg.beta_1, k))), m)
         hat_v  == VScale(FDiv(Num(1), FSub(Num(1), FPow(cfg.beta_2, k))), v)
         step   == VDiv(VScale(alpha_schedule(cfg.alpha_schedule, k), hat_m),
                        VAddS(VSqrt(hat_v), cfg.internal_epsilon))
     IN  [x |-> VSub(xx, step), m_k |-> m, v_k |-> v,
          updates |-> 1]][grad]

\* mutant of Adam_body: the update is made before the loop is left
Adam_body_update_first(has_converged, xx, m_k, v_k, k, grad, cfg) ==
  Adam_update(xx, m_k, v_k, k, grad, cfg)

\* mutant of Adam_body: the iterate is moved before the loop is left
Adam_body_step_then_break(has_converged, xx, m_k, v_k, k, grad, cfg) ==
  IF has_converged
  THEN [x |-> Adam_update(xx, m_k, v_k, k, grad, cfg).x,
        m_k |-> m_k, v_k |-> v_k, updates |-> 0]
  ELSE Adam_update(xx, m_k, v_k, k, grad, cfg)

\* if (has_converged) break;  followed by the update
Adam_body(has_converged, xx, m_k, v_k, k, grad, cfg) ==
  IF has_converged
  THEN [x |-> xx, m_k |-> m_k, v_k |-> v_k, updates |-> 0]
  ELSE Adam_update(xx, m_k, v_k, k, grad, cfg)

AdamMaxIts == 0..MaxAdamIter

\* the arguments the caller gives by name: any of the iteration cap, the
\* verbosity, the stopping threshold and the schedule with its decay rates
AdamArgs ==
  { [given |-> (IF mi = 0 - 1 THEN {} ELSE {"maximimum_iterations"})
               \cup (IF vb THEN {"verbose"} ELSE {})
               \cup (IF ae = Tiny THEN {} ELSE {"absolute_epsilon"})
               \cup (IF sch.a = "constant" THEN {}
                     ELSE {"alpha_schedule", "beta_1", "beta_2"}),
     val |-> [AdamDefaults EXCEPT
                !.maximimum_iterations =
                   IF mi = 0 - 1 THEN AdamDefaults.maximimum_iterations
                   ELSE mi,
                !.absolute_epsilon = ae,
                !.verbose = vb,
                !.alpha_schedule = sch.a,
                !.beta_1 = sch.b,
                !.beta_2 = IF sch.a = "constant" THEN AdamDefaults.beta_2
                           ELSE sch.b]] :
      mi \in AdamMaxIts \cup {0 - 1}, ae \in { Tiny, 2 * Scale },
      vb \in BOOLEAN,
      sch \in { [a |-> "constant", b |-> AdamDefaults.beta_1],
                [a |-> "inv_sqrt", b |-> (6 * Scale) \div 10] } }

\* the values a caller may supply for each key, in and out of its range
KeyValues ==
  [ maximimum_iterations |-> {0, MaxAdamIter},
    alpha_schedule       |-> {"inv_sqrt"},
    beta_1               |-> {0, (6 * Scale) \div 10, Num(1)},
    beta_2               |-> {(6 * Scale) \div 10, Num(1),
                              (15 * Scale) \div 10},
    absolute_epsilon     |-> {0, 2 * Scale},
    verbose              |-> {TRUE},
    internal_epsilon     |-> {Scale \div 2} ]

\* every set of keys, each with one of its values
AdamArgsAll ==
  { [given |-> g, val |-> [key \in DOMAIN AdamDefaults |->
                             IF key \in g THEN v[key]
                             ELSE AdamDefaults[key]]] :
      g \in SUBSET DOMAIN AdamDefaults,
      v \in [ maximimum_iterations : KeyValues.maximimum_iterations,
              alpha_schedule : KeyValues.alpha_schedule,
              beta_1 : KeyValues.beta_1,
              beta_2 : KeyValues.beta_2,
              absolute_epsilon : KeyValues.absolute_epsilon,
              verbose : KeyValues.verbose,
              internal_epsilon : KeyValues.internal_epsilon ] }

\* Adam_optimize(objective_function, x_init, user_args...)
Adam_call(i, x0, user_args) ==
  /\ obj[i].kind = "Differentiable_Function"
  /\ FnOf(i) = "Rosenbrock"
  /\ \E untaken \in UntakenKey :
       IF Supplied(user_args, untaken) = "stored"
       THEN Enter("Adam", i, 0, 0, configure_Adam(user_args), x0, user_args)
       ELSE Refuse("Adam", user_args, Supplied(user_args, untaken))

\* one iteration of the loop of Adam_optimize
Adam_iter ==
  /\ status = "running"
  /\ pc = "loop"
  /\ sv.alg = "Adam"
  /\ AdamLoopCond(sv.iter, sv.cfg.maximimum_iterations)
  \* the locals, each computed once, in the order of the statements
  /\ \E ob \in { obj[sv.inst] } :
     \E k \in { sv.iter } :
     \E grad \in { Impl_df(impls[ob.pimpl], x) } :
     \E grad_norm \in { norm_2(grad) } :
     \E conv \in { AdamConverged(grad_norm, sv.cfg.absolute_epsilon) } :
     \E rep \in { AdamReports(conv, sv.cfg.verbose, k) } :
     \E nx \in { Adam_body(conv, x, sv.m_k, sv.v_k, k, grad, sv.cfg) } :
         /\ heap' = IF rep THEN Count_f(Count_df(heap, ob), ob)
                    ELSE Count_df(heap, ob)
         /\ calls' = IF rep THEN Note(Note(calls, ob.df_counter), ob.f_counter)
                     ELSE Note(calls, ob.df_counter)
         /\ log' = IF rep
                   THEN Append(log, [iter |-> k, x |-> x,
                                     f |-> Impl_f(impls[ob.pimpl], x),
                                     norm |-> grad_norm])
                   ELSE log
         /\ x' = nx.x
         /\ sv' = [sv EXCEPT
                     !.has_converged = conv,
                     !.m_k = nx.m_k,
                     !.v_k = nx.v_k,
                     !.iter = IF conv THEN @ ELSE @ + 1,
                     !.steps = @ + 1,
                     !.hits = IF FLt(grad_norm, sv.cfg.absolute_epsilon)
                              THEN @ \cup {k} ELSE @,
                     !.evals.df = @ + 1,
                     !.evals.f = IF rep THEN @ + 1 ELSE @,
                     !.updates = @ + nx.updates]
         /\ pc' = IF conv THEN "break" ELSE "loop"
  /\ UNCHANGED << precision, thr, NDEBUG, status, impls, obj, origin, last, ncalls >>

Adam_return ==
  /\ status = "running"
  /\ sv.alg = "Adam"
  /\ \/ pc = "break"
     \/ pc = "loop" /\ ~AdamLoopCond(sv.iter, sv.cfg.maximimum_iterations)
  /\ Leave

(***************************************************************************)
(* The wrappers on their own: any sequence of operations of a caller.      *)
(***************************************************************************)
Init ==
  /\ precision = "fixed"
  /\ NDEBUG \in BOOLEAN
  /\ status = "running"
  /\ impls = << >>
  /\ obj = [i \in Inst |-> NoObj]
  /\ heap = << >>
  /\ calls = << >>
  /\ origin = [i \in Inst |-> NoOrigin]
  /\ last = [op |-> "none", inst |-> 0, out |-> 0, d |-> << >>,
             slots |-> NoSlots]
  /\ pc = "idle"
  /\ sv = NoSolver
  /\ x = << >>
  /\ log = << >>
  /\ ncalls = 0
  /\ thr = [t \in Threads |-> AtRest]

Next ==
  \/ \E i \in Inst, form \in FunctionForms :
       Function_new(i, FormOfImpl(form), "square_root", Num(2))
  \/ \E i \in Inst, form \in DiffForms :
       Differentiable_Function_new(i, FormOfImpl(form), "square_root", Num(2))
  \/ \E i, j \in Inst : Copy(i, j)
  \/ \E i, j \in Inst : as_function(i, j)
  \/ \E i \in Inst : Function_initialize_counter(i)
  \/ \E i \in Inst : Differentiable_Function_initialize_counter(i)
  \/ \E i \in Inst : Function_f_counter(i)
  \/ \E i \in Inst : Differentiable_Function_f_counter(i)
  \/ \E i \in Inst : Differentiable_Function_df_counter(i)
  \/ \E i \in Inst : \E xx \in PointsOf(i) :
       \/ Function_f(i, xx)
       \/ Differentiable_Function_f(i, xx)
       \/ Differentiable_Function_f_df(i, xx)
       \/ Differentiable_Function_df(i, xx)

Spec == Init /\ [][Next]_vars

(***************************************************************************)
(* The Function constructors told apart: each Impl remembers the           *)
(* constructor that made it.                                               *)
(***************************************************************************)
NextForms ==
  \/ \E i \in Inst, form \in FunctionForms :
       Function_new(i, form, "square_root", Num(2))
  \/ \E i \in Inst : Function_initialize_counter(i)
  \/ \E i \in Inst : \E xx \in PointsOf(i) : Function_f(i, xx)

SpecForms == Init /\ [][NextForms]_vars

(***************************************************************************)
(* Two threads evaluating through two variables that share their counters, *)
(* without synchronization.  The increment of a plain size_t counter is a   *)
(* load and a store, and the steps of the threads interleave.              *)
(***************************************************************************)
\* the variable thread t evaluates through
InstOf(t) == t

\* the entry points of the wrapper of instance i
EntryPoints(i) ==
  IF obj[i].kind = "Function" THEN {"f"}
  ELSE IF obj[i].kind = "Differentiable_Function" THEN {"f", "f_df", "df"}
  ELSE {}

\* the counter the thread is about to load or store
CellOf(t) ==
  IF thr[t].pc \in {"load_f", "store_f"} THEN obj[InstOf(t)].f_counter
  ELSE obj[InstOf(t)].df_counter

\* the first statement of an entry point, given the counters that are set
FirstOf(ob, op) ==
  IF op # "df" /\ ob.f_counter # 0 THEN "load_f"
  ELSE IF op # "f" /\ ob.df_counter # 0 THEN "load_df"
  ELSE "call"

\* the statement after the increment of the value counter
AfterF(ob, op) ==
  IF op = "f_df" /\ ob.df_counter # 0 THEN "load_df" ELSE "call"

\* mutant of Increment: the increment is one atomic fetch-and-add
Increment_atomic(h, c, reg) == [h EXCEPT ![c] = @ + 1]

\* the store of the pre-increment: the value loaded, plus one
Increment(h, c, reg) == [h EXCEPT ![c] = reg + 1]

\* thread t enters f, f_df or df of its variable
T_enter(t, op) ==
  /\ status = "running"
  /\ thr[t].pc = "rest"
  /\ thr[t].left > 0
  /\ op \in EntryPoints(InstOf(t))
  /\ thr' = [thr EXCEPT ![t].pc = FirstOf(obj[InstOf(t)], op), ![t].op = op]
  /\ calls' = IF op = "f" THEN Note(calls, obj[InstOf(t)].f_counter)
              ELSE IF op = "df" THEN Note(calls, obj[InstOf(t)].df_counter)
              ELSE Note(Note(calls, obj[InstOf(t)].f_counter),
                        obj[InstOf(t)].df_counter)
  /\ UNCHANGED << precision, NDEBUG, status, impls, obj, heap, origin, last, solvars >>

\* the pre-increment of the counter, first half: the counter is read
T_load(t) ==
  /\ thr[t].pc \in {"load_f", "load_df"}
  /\ thr' = [thr EXCEPT ![t].reg = heap[CellOf(t)],
                         ![t].pc = IF @ = "load_f" THEN "store_f"
                                   ELSE "store_df"]
  /\ UNCHANGED << precision, NDEBUG, status, objvars, last, solvars >>

\* the pre-increment of the counter, second half: the counter is written
T_store(t) ==
  /\ thr[t].pc \in {"store_f", "store_df"}
  /\ heap' = Increment(heap, CellOf(t), thr[t].reg)
  /\ thr' = [thr EXCEPT ![t].pc = IF @ = "store_f"
                                   THEN AfterF(obj[InstOf(t)], thr[t].op)
                                   ELSE "call"]
  /\ UNCHANGED << precision, NDEBUG, status, impls, obj, calls, origin, last, solvars >>

\* _pimpl->f(x, y), f_df(x, y, df) or df(x, df), and the return
T_call(t, xx) ==
  /\ thr[t].pc = "call"
  /\ thr' = [thr EXCEPT
               ![t].pc = "rest",
               ![t].left = @ - 1,
               ![t].y = IF thr[t].op = "df" THEN 0
                        ELSE Impl_f(impls[obj[InstOf(t)].pimpl], xx)]
  /\ UNCHANGED << precision, NDEBUG, status, objvars, last, solvars >>

\* a wrapped callable with its counters initialized, and a copy of it
InitThreads ==
  /\ precision = "fixed"
  /\ NDEBUG = FALSE
  /\ status = "running"
  /\ \E kind \in {"Function", "Differentiable_Function"} :
       LET diff == kind = "Differentiable_Function"
           ob   == [kind |-> kind, pimpl |-> 1, f_counter |-> 1,
                    df_counter |-> IF diff THEN 2 ELSE 0]
       IN  /\ impls = << [form |-> IF diff THEN "probe" ELSE "outref",
                          fn |-> "square_root", c |-> Num(2)] >>
           /\ obj = [i \in Inst |-> IF i \in Threads THEN ob ELSE NoObj]
           /\ origin = [i \in Inst |->
                         IF i = 1
                         THEN [how |-> "wrap", from |-> 0, reinit |-> TRUE]
                         ELSE IF i \in Threads
                         THEN [how |-> "copy", from |-> 1, reinit |-> FALSE]
                         ELSE NoOrigin]
           /\ heap = IF diff THEN << 0, 0 >> ELSE << 0 >>
           /\ calls = IF diff THEN << 0, 0 >> ELSE << 0 >>
  /\ last = [op |-> "none", inst |-> 0, out |-> 0, d |-> << >>,
             slots |-> NoSlots]
  /\ pc = "idle"
  /\ sv = NoSolver
  /\ x = << >>
  /\ log = << >>
  /\ ncalls = 0
  /\ thr = [t \in Threads |-> AtRest]

NextThreads ==
  \/ \E t \in Threads, op \in {"f", "f_df", "df"} : T_enter(t, op)
  \/ \E t \in Threads : T_load(t)
  \/ \E t \in Threads : T_store(t)
  \/ \E t \in Threads : \E xx \in PointsOf(InstOf(t)) : T_call(t, xx)

SpecThreads == InitThreads /\ [][NextThreads]_vars

(***************************************************************************)
(* The solvers, called as the examples call them: on a                     *)
(* Differentiable_Function and its as_function() for the root solvers, on  *)
(* a Differentiable_Function wrapping Rosenbrock for Adam_optimize, with   *)
(* or without a call of initialize_counter() before.                       *)
(***************************************************************************)
Wrapped ==
  /\ status = "running"
  /\ \E fn \in {"square_root", "Rosenbrock"}, counting \in BOOLEAN :
       LET df_obj == [kind |-> "Differentiable_Function", pimpl |-> 1,
                      f_counter |-> IF counting THEN 1 ELSE 0,
                      df_counter |-> IF counting THEN 2 ELSE 0]
           f_obj  == [kind |-> "Function", pimpl |-> 1,
                      f_counter |-> df_obj.f_counter, df_counter |-> 0]
       IN  /\ impls = << [form |-> "probe", fn |-> fn,
                          c |-> IF fn = "square_root" THEN Num(2)
                                ELSE Num(1)] >>
           /\ obj = [i \in Inst |->
                      IF i = 1 THEN df_obj
                      ELSE IF i = 2 /\ fn = "square_root" THEN f_obj
                      ELSE NoObj]
           /\ origin = [i \in Inst |->
                         IF i = 1
                         THEN [how |-> "wrap", from |-> 0, reinit |-> FALSE]
                         ELSE IF i = 2 /\ fn = "square_root"
                         THEN [how |-> "downgrade", from |-> 1,
                               reinit |-> FALSE]
                         ELSE NoOrigin]
           /\ heap = IF counting THEN << 0, 0 >> ELSE << >>
           /\ calls = IF counting THEN << 0, 0 >> ELSE << >>
  /\ last = [op |-> "none", inst |-> 0, out |-> 0, d |-> << >>,
             slots |-> NoSlots]
  /\ pc = "idle"
  /\ sv = NoSolver
  /\ x = << >>
  /\ log = << >>
  /\ ncalls = 0
  /\ thr = [t \in Threads |-> AtRest]

InitSolve == precision = "fixed" /\ NDEBUG = FALSE /\ Wrapped

NextSolve ==
  \/ \E i \in Callable("square_root") : \E x0 \in Starts(i) :
       \E epsilon \in Epsilons, max_iter \in MaxIters :
         Newton_call(i, x0, epsilon, max_iter)
  \/ \E i \in Callable("square_root") : \E x0 \in Starts(i) :
       \E epsilon \in Epsilons, max_iter \in MaxIters :
         Steffensen_call(i, x0, epsilon, max_iter)
  \/ \E i \in Callable("Rosenbrock") : \E x0 \in Starts(i) :
       \E user_args \in AdamArgs : Adam_call(i, x0, user_args)
  \/ Newton_iter
  \/ Newton_return
  \/ Steffensen_iter
  \/ Steffensen_return
  \/ Adam_iter
  \/ Adam_return

SpecSolve == InitSolve /\ [][NextSolve]_vars

(***************************************************************************)
(* The root solvers on the doubles themselves, called as main calls them:  *)
(* on square_root with c = 2 after initialize_counter(), Newton on the     *)
(* Differentiable_Function and Steffensen on its as_function().            *)
(***************************************************************************)
\* the double nearest to 1e-6
OneE_6 == DRatio(0, << 1 >>, 0, NFromInt(1000000), 0)

RefPoints   == { << DFromInt(n) >> : n \in 0..MaxRefStart }
RefEpsilons == { OneE_10, OneE_6 }
RefMaxIters == { MaxIter, DefaultMaxIter }

\* a fresh point, or the caller's x as the previous call left it
RefStarts == RefPoints \cup (IF pc = "done" THEN {x} ELSE {})

InitRef ==
  /\ precision = "binary64"
  /\ NDEBUG = FALSE
  /\ Wrapped
  /\ FnOf(1) = "square_root"
  /\ obj[1].f_counter # 0

NextRef ==
  \/ \E i \in Callable("square_root") : \E x0 \in RefStarts :
       \E epsilon \in RefEpsilons, max_iter \in RefMaxIters :
         Newton_call(i, x0, epsilon, max_iter)
  \/ \E i \in Callable("square_root") : \E x0 \in RefStarts :
       \E epsilon \in RefEpsilons, max_iter \in RefMaxIters :
         Steffensen_call(i, x0, epsilon, max_iter)
  \/ Newton_iter
  \/ Newton_return
  \/ Steffensen_iter
  \/ Steffensen_return

SpecRef == InitRef /\ [][NextRef]_vars

(***************************************************************************)
(* The configuration layer on its own: a caller that supplies any set of   *)
(* named arguments, in either build.                                       *)
(***************************************************************************)
InitConf ==
  precision = "fixed" /\ NDEBUG \in BOOLEAN /\ Wrapped /\ FnOf(1) = "Rosenbrock"

NextConf == \E user_args \in AdamArgsAll : configure_Adam_call(user_args)

SpecConf == InitConf /\ [][NextConf]_vars

(***************************************************************************)
(* Properties of the wrappers.                                             *)
(***************************************************************************)
IsDF(i) == obj[i].kind = "Differentiable_Function"
Derived(j) == origin[j].how \in {"copy", "downgrade"}

\* C1: a counter made by initialize_counter() reads exactly the number of
\* evaluations asked, since then, through the instances that share it
\* (copies, downgraded Functions), and f_counter() read through any of them
\* returns that number.
C1_CounterCorrect ==
  /\ \A c \in 1..Len(heap) : heap[c] # Free => heap[c] = calls[c]
  /\ (last.op = "f_counter" /\ obj[last.inst].f_counter # 0)
       => last.out = calls[obj[last.inst].f_counter]

\* C1 witness: f_counter() read through an instance made from another one
\* returns 2, the two sharing the counter.
C1_Witness ==
  /\ last.op = "f_counter"
  /\ last.out = 2
  /\ Derived(last.inst)
  /\ obj[last.inst].f_counter # 0
  /\ obj[last.inst].f_counter = obj[origin[last.inst].from].f_counter

\* the step is an evaluation f() made through the instance j
StepF(j) == last'.op = "f" /\ last'.inst = j

\* C2 (as stated): whenever the original has an initialized counter, be it
\* initialized before or after the downgrade, an evaluation through the
\* downgraded Function raises the original's f_counter() by exactly 1.
C2_Orig ==
  [][\A j \in Inst :
       (origin[j].how = "downgrade" /\ StepF(j)
          /\ obj[origin[j].from].f_counter # 0)
       => heap'[obj[origin[j].from].f_counter]
            = heap[obj[origin[j].from].f_counter] + 1]_vars

\* C2 (amended): when the original's counter was initialized before the
\* downgrade and initialize_counter() ran on neither instance since, an
\* evaluation through the downgraded Function raises the original's
\* f_counter() by exactly 1.
C2_DowngradeSharing ==
  [][\A j \in Inst :
       (origin[j].how = "downgrade" /\ StepF(j) /\ ~origin[j].reinit
          /\ obj[origin[j].from].f_counter # 0)
       => heap'[obj[origin[j].from].f_counter]
            = heap[obj[origin[j].from].f_counter] + 1]_vars

\* C2 witness: after an evaluation through a downgraded Function the
\* original's counter, initialized before the downgrade, reads 1.
C2_Witness ==
  /\ last.op = "f"
  /\ origin[last.inst].how = "downgrade"
  /\ ~origin[last.inst].reinit
  /\ obj[origin[last.inst].from].f_counter # 0
  /\ heap[obj[origin[last.inst].from].f_counter] = 1

\* C3 (as stated): in every reachable state an instance made by copying
\* another shares its evaluation strategy and its counter.
C3_Orig ==
  \A j \in Inst :
    origin[j].how = "copy"
    => /\ obj[j].pimpl = obj[origin[j].from].pimpl
       /\ obj[j].f_counter = obj[origin[j].from].f_counter

\* C3 (amended): an instance made by copying another shares its evaluation
\* strategy in every reachable state, and shares its counter(s) as long as
\* initialize_counter() ran on neither of the two since the copy.
C3_CopySharing ==
  \A j \in Inst :
    origin[j].how = "copy"
    => /\ obj[j].pimpl = obj[origin[j].from].pimpl
       /\ ~origin[j].reinit
            => /\ obj[j].f_counter = obj[origin[j].from].f_counter
               /\ obj[j].df_counter = obj[origin[j].from].df_counter

\* C3 witness: an increment made through one of the two is read through
\* the other.
C3_Witness ==
  \E j \in Inst :
    /\ origin[j].how = "copy"
    /\ ~origin[j].reinit
    /\ last.op = "f_counter"
    /\ last.inst \in {j, origin[j].from}
    /\ last.out = 1
    /\ obj[j].f_counter # 0

\* C4: on a Differentiable_Function with initialized counters, f() raises
\* the value counter by 1 and leaves the derivative counter, df() raises
\* the derivative counter by 1 and leaves the value counter, and f_df()
\* raises both by 1.
C4_PerEntryPoint ==
  [][\A i \in Inst :
       (IsDF(i) /\ obj[i].f_counter # 0 /\ obj[i].df_counter # 0
          /\ last'.inst = i /\ last'.op \in {"f", "df", "f_df"})
       => LET fc == obj[i].f_counter
              dc == obj[i].df_counter
          IN  /\ heap'[fc] = heap[fc]
                    + (IF last'.op \in {"f", "f_df"} THEN 1 ELSE 0)
              /\ heap'[dc] = heap[dc]
                    + (IF last'.op \in {"df", "f_df"} THEN 1 ELSE 0)]_vars

\* C4 witness: after f() and then f_df() the value counter reads 2 and the
\* derivative counter 1.
C4_Witness ==
  /\ last.op = "f_df"
  /\ IsDF(last.inst)
  /\ obj[last.inst].f_counter # 0
  /\ obj[last.inst].df_counter # 0
  /\ heap[obj[last.inst].f_counter] = 2
  /\ heap[obj[last.inst].df_counter] = 1

\* the counter read by the last operation, when that was a read
ReadPtr ==
  IF last.op = "f_counter" THEN obj[last.inst].f_counter
  ELSE IF last.op = "df_counter" THEN obj[last.inst].df_counter
  ELSE 1

\* C5: f_counter() / df_counter() on an instance whose counter was never
\* initialized fails with a precondition violation and returns no number.
C5_ReadBeforeInit ==
  (last.op \in {"f_counter", "df_counter"} /\ ReadPtr = 0)
  => status = "aborted"


(***************************************************************************)
(* Newton and Steffensen are sequential loops: once called, each step of   *)
(* the loop and the return are executed.                                   *)
(***************************************************************************)
LiveSolve ==
  /\ SpecSolve
  /\ WF_vars(Newton_iter) /\ WF_vars(Newton_return)
  /\ WF_vars(Steffensen_iter) /\ WF_vars(Steffensen_return)

IsRoot == sv.alg \in {"Newton", "Steffensen"}
IsAdam == sv.alg = "Adam"
Returned == pc = "done"

C6_Bounded ==
  IsRoot =>
    /\ sv.steps <= sv.max_iter
    /\ pc = "loop" => sv.hits = {} /\ sv.iter = sv.steps + 1
    /\ pc = "break" => sv.hits = {sv.steps}
    /\ Returned =>
         /\ status = "running"
         /\ sv.has_converged <=> sv.hits # {}
         /\ sv.has_converged => sv.hits = {sv.steps}
         /\ ~sv.has_converged => sv.steps = sv.max_iter
         /\ last.out = IF sv.has_converged THEN 1 ELSE 0

C6_Returns == (IsRoot /\ pc = "loop") ~> Returned

\* C6: Newton and Steffensen run at most max_iter iterations (20 when the
\* caller gives none) and always return: true at the first iteration whose
\* step is below epsilon in magnitude, false after exactly max_iter
\* iterations when no step is, and that return is an ordinary one.
C6_RootSolversTerminate == []C6_Bounded /\ C6_Returns

\* a call with the default cap that used all of its 20 iterations
C6_Witness ==
  /\ IsRoot /\ Returned
  /\ sv.max_iter = DefaultMaxIter
  /\ sv.steps = DefaultMaxIter
  /\ ~sv.has_converged

\* the number of k with 1 <= k < maximimum_iterations
AdamBudget == Cardinality(1 .. (sv.cfg.maximimum_iterations - 1))

\* C7: Adam_optimize iterates k = 1 while k < max_iterations, so it makes at
\* most max_iterations - 1 gradient evaluations and update steps; with
\* max_iterations = 1 it makes no update step, leaves x unchanged and
\* returns false.
C7_AdamOffByOne ==
  IsAdam =>
    /\ sv.evals.df <= AdamBudget
    /\ sv.updates <= AdamBudget
    /\ sv.steps = sv.evals.df
    /\ (Returned /\ sv.cfg.maximimum_iterations = 1) =>
         /\ sv.updates = 0
         /\ sv.evals.df = 0
         /\ x = sv.x_start
         /\ ~sv.has_converged
         /\ last.out = 0

\* a call with max_iterations = 1 from a point where the gradient is not zero
C7_Witness ==
  /\ IsAdam /\ Returned
  /\ sv.cfg.maximimum_iterations = 1
  /\ sv.x_start # << Num(1), Num(1) >>

\* C8: Adam_optimize returns true exactly when the norm of the gradient was
\* below absolute_epsilon at an executed iteration, and that iteration is
\* the last one; it returns false exactly when the iteration cap is
\* exhausted without the test ever holding.
C8_AdamReturn ==
  IsAdam =>
    /\ pc = "loop" => sv.hits = {}
    /\ pc = "break" => sv.hits = {sv.steps}
    /\ Returned =>
         /\ sv.has_converged <=> sv.hits # {}
         /\ sv.hits # {} => sv.hits = {sv.steps}
         /\ last.out = (IF sv.hits # {} THEN 1 ELSE 0)
         /\ sv.hits = {} =>
              /\ sv.iter >= sv.cfg.maximimum_iterations
              /\ sv.steps = AdamBudget

\* a call that returned true at an iteration after the first
C8_Witness ==
  /\ IsAdam /\ Returned
  /\ sv.has_converged
  /\ sv.steps > 1
  /\ last.out = 1

C9_Quiet ==
  (IsAdam /\ ~sv.cfg.verbose /\ sv.hits = {}) =>
    sv.evals.f = 0 /\ log = << >>

C9_Iteration ==
  (IsAdam /\ pc = "loop" /\ sv'.steps = sv.steps + 1) =>
    LET k   == sv.iter
        due == (k \in sv'.hits) \/ (sv.cfg.verbose /\ k % 10 = 1)
        n   == IF due THEN 1 ELSE 0
        fc  == obj[sv.inst].f_counter
    IN  /\ sv'.evals.f = sv.evals.f + n
        /\ Len(log') = Len(log) + n
        /\ due => log'[Len(log')].iter = k
        /\ fc # 0 => heap'[fc] = heap[fc] + n

\* C9: at iteration k Adam_optimize evaluates the value and emits a progress
\* record exactly once when the iteration converged or verbose is true and
\* k mod 10 = 1, and not at all otherwise; a call with verbose false that
\* has not converged has not advanced the value counter.
C9_ValueOnReport == []C9_Quiet /\ [][C9_Iteration]_vars

\* a verbose call past iteration 11 that has reported twice and not converged
C9_Witness ==
  /\ IsAdam /\ sv.cfg.verbose
  /\ sv.hits = {}
  /\ sv.steps = 12
  /\ Len(log) = 2
  /\ obj[sv.inst].f_counter # 0
  /\ heap[obj[sv.inst].f_counter] = 2

\* the call repeats the previous one, which returned true, from its iterate
Rerun == Returned /\ sv.rerun > 0

\* C10 as stated: every solver re-run from the iterate of a run that
\* returned true converges at iteration 1 and leaves the iterate where it
\* started.
C10_Orig ==
  Rerun => sv.has_converged /\ sv.hits = {1} /\ x = sv.x_start

\* C10: Adam_optimize re-run from the iterate of a run that returned true
\* converges at iteration 1 and leaves the iterate where it started; Newton
\* and Steffensen add the step of the converging iteration, so a re-run
\* that converges at iteration 1 leaves the iterate moved by that step,
\* which is below epsilon in magnitude.
C10_RerunAdamOnly ==
  Rerun =>
    IF IsAdam
    THEN sv.has_converged /\ sv.hits = {1} /\ x = sv.x_start
         /\ sv.updates = 0
    ELSE sv.hits = {1} =>
           /\ sv.has_converged
           /\ x = << FAdd(sv.x_start[1], sv.delta_x) >>
           /\ FLt(FAbs(sv.delta_x), sv.epsilon)

\* Adam_optimize re-run from a converged iterate where the gradient is not
\* zero
C10_Witness ==
  /\ Rerun /\ IsAdam
  /\ sv.x_start # << Num(1), Num(1) >>
  /\ x = sv.x_start
IsConf == sv.alg = "configure_Adam"
Gave(key) == key \in sv.given

\* the value supplied for a decay rate is not strictly between 0 and 1
RateOutside(key) ==
  Gave(key) /\ ~(0 < sv.asked[key] /\ sv.asked[key] < Scale)

\* the value supplied for the threshold is not positive
ThresholdOutside ==
  Gave("absolute_epsilon") /\ ~(0 < sv.asked.absolute_epsilon)

\* C11: supplying beta_1 or beta_2 equal to 0.0 or 1.0, or outside the open
\* interval (0,1), fails at the point the value is supplied and the value is
\* never stored.
C11_RatesValidated ==
  (IsConf /\ (RateOutside("beta_1") \/ RateOutside("beta_2")))
    => status # "running"

\* C12 as stated: supplying max iterations = 0 fails at the point the value
\* is supplied.
C12_Orig ==
  (IsConf /\ Gave("maximimum_iterations")
     /\ sv.asked.maximimum_iterations = 0)
    => status # "running"

\* C12: the iteration cap carries no validation: max iterations = 0 is
\* accepted and stored when supplied; a supply that names it fails only
\* because of another argument (a rate or the regularizer outside (0,1), a
\* threshold that is not positive, a key the configuration does not take).
C12_CapNotValidated ==
  (IsConf /\ Gave("maximimum_iterations")
     /\ sv.asked.maximimum_iterations = 0)
    => /\ status = "running" => sv.cfg.maximimum_iterations = 0
       /\ status = "aborted" =>
            \/ RateOutside("beta_1") \/ RateOutside("beta_2")
            \/ RateOutside("internal_epsilon") \/ ThresholdOutside
       /\ status = "rejected" => ~(sv.given \subseteq AdamTaken)

\* max iterations = 0 supplied alone in a build that keeps assert
C12_Witness ==
  /\ IsConf /\ ~NDEBUG
  /\ sv.given = {"maximimum_iterations"}
  /\ sv.asked.maximimum_iterations = 0
  /\ status = "running"
  /\ sv.cfg.maximimum_iterations = 0

\* C13: each of the seven keys can be overridden at the call: a value
\* supplied within its range is the value of the configuration the solver
\* reads.
C13_EveryKeyOverridable ==
  (IsConf /\ ~RateOutside("beta_1") /\ ~RateOutside("beta_2")
     /\ ~RateOutside("internal_epsilon") /\ ~ThresholdOutside)
    => /\ status = "running"
       /\ \A key \in sv.given : sv.cfg[key] = sv.asked[key]

\* the defaults as documented
Documented ==
  [ maximimum_iterations |-> 100, beta_1 |-> 900, beta_2 |-> 999,
    absolute_epsilon |-> 1, verbose |-> FALSE ]

\* C14: whatever set of keys is supplied, every key that is not supplied
\* keeps its documented default (100, constant step 0.01, 0.9, 0.999, 1e-6,
\* false) and every supplied key the configuration takes has the value
\* supplied for it: supplying one key never changes another.
C14_Defaults ==
  (IsConf /\ status = "running") =>
    /\ \A key \in DOMAIN Documented :
         ~Gave(key) => sv.cfg[key] = Documented[key]
    /\ ~Gave("alpha_schedule") =>
         \A k \in 1..MaxAdamIter :
           alpha_schedule(sv.cfg.alpha_schedule, k) = 10
    /\ \A key \in sv.given \cap AdamTaken : sv.cfg[key] = sv.asked[key]

\* beta_1 and verbose supplied, the other keys left alone
C14_Witness ==
  /\ IsConf /\ status = "running"
  /\ sv.given = {"beta_1", "verbose"}
  /\ sv.cfg.beta_1 = 600
  /\ sv.cfg.beta_2 = 999
  /\ sv.cfg.verbose

(***************************************************************************)
(* Supply protocol of the combined procedure.                              *)
(***************************************************************************)
\* the last operation evaluated through an Impl that wraps a combined
\* procedure (value slot, derivative slot)
AskedCombined ==
  /\ last.op \in {"f", "df", "f_df"}
  /\ obj[last.inst].kind # "none"
  /\ impls[obj[last.inst].pimpl].form \in DiffForms

\* C15: every call made to the user's combined procedure passes at least one
\* non-null output slot: f() passes (value slot, null) and gets the value
\* only, df() passes (null, derivative slot) and gets the derivative only,
\* f_df() passes both slots; a call with both slots null never occurs.
C15_SupplyProtocol ==
  AskedCombined =>
    /\ last.slots # << FALSE, FALSE >>
    /\ last.op = "f"    => last.slots = << TRUE, FALSE >> /\ last.d = << >>
    /\ last.op = "df"   => last.slots = << FALSE, TRUE >> /\ last.d # << >>
    /\ last.op = "f_df" => last.slots = << TRUE, TRUE >>  /\ last.d # << >>

C15_Witness ==
  /\ AskedCombined
  /\ last.op = "df"
  /\ last.slots = << FALSE, TRUE >>
  /\ obj[last.inst].kind = "Differentiable_Function"


(***************************************************************************)
(* The constructor forms of Function.                                      *)
(***************************************************************************)
\* an instance whose Impl was made by one of the Function constructors
Built(i) ==
  /\ obj[i].kind = "Function"
  /\ impls[obj[i].pimpl].form \in FunctionForms

\* instances i and j wrap the same computation in two different forms
OtherForm(i, j) ==
  /\ Built(i) /\ Built(j)
  /\ impls[obj[i].pimpl].fn = impls[obj[j].pimpl].fn
  /\ impls[obj[i].pimpl].c = impls[obj[j].pimpl].c
  /\ impls[obj[i].pimpl].form # impls[obj[j].pimpl].form

\* one call of f(x, y) on the instance i, built in whatever form
C17_Call(i, xx) ==
  (Built(i) /\ Function_f(i, xx)) =>
    /\ last'.out = User(impls[obj[i].pimpl].fn, impls[obj[i].pimpl].c,
                        xx, TRUE, FALSE).f
    /\ \A j \in Inst :
         OtherForm(i, j) => Impl_f(impls[obj[j].pimpl], xx) = last'.out
    /\ \A c \in 1..Len(heap) :
         heap'[c] = IF c = obj[i].f_counter THEN heap[c] + 1 ELSE heap[c]

\* C17: a Function built from a callable returning the value, from a
\* callable writing the value into an output reference, or from a free
\* procedure with bound extra arguments, is evaluated through the one entry
\* point f(x, y): for every x the same y is written whatever the form, and
\* the counter of the instance, when it has one, advances by exactly one.
C17_FormEquivalence ==
  [][\A i \in Inst : \A xx \in PointsOf(i) : C17_Call(i, xx)]_vars

C17_Witness ==
  /\ last.op = "f"
  /\ \E j \in Inst : OtherForm(last.inst, j)
  /\ impls[obj[last.inst].pimpl].form = "free_outref"
  /\ obj[last.inst].f_counter # 0
  /\ heap[obj[last.inst].f_counter] > 0


(***************************************************************************)
(* Concurrent evaluation.                                                  *)
(***************************************************************************)
\* no thread is inside a call and every thread made all its evaluations
AllReturned == \A t \in Threads : thr[t].pc = "rest" /\ thr[t].left = 0

\* C16: the increment of a shared counter is a read followed by a write of
\* the value read plus one, whatever the other thread wrote in between, so
\* the counter never exceeds the number of evaluations made and can end
\* smaller than it (a lost update, reached in C16_Witness).
C16_NonAtomicIncrement ==
  /\ [](\A c \in 1..Len(heap) : heap[c] <= calls[c])
  /\ [][\A t \in Threads :
          T_store(t) => heap'[CellOf(t)] = thr[t].reg + 1]_vars

\* two threads called f() only, all calls returned, and the shared counter
\* is smaller than the number of evaluations
C16_Witness ==
  /\ AllReturned
  /\ obj[1].kind = "Function"
  /\ obj[1].f_counter = obj[2].f_counter
  /\ calls[obj[1].f_counter] = 2 * MaxThreadEvals
  /\ heap[obj[1].f_counter] < calls[obj[1].f_counter]


(***************************************************************************)
(* The reference runs of the examples.                                     *)
(***************************************************************************)
\* the double printed as 1.4142135623730951
Root ==
  DRatio(0, NAdd(NMul(NFromInt(14142135), NFromInt(1000000000)),
                 NFromInt(623730951)), 0,
         NMul(NFromInt(100000000), NFromInt(100000000)), 0)

\* the call of main has returned: x0 = 2, the default epsilon and max_iter,
\* the counters initialized just before the call
ReferenceRun(alg) ==
  /\ pc = "done"
  /\ sv.alg = alg
  /\ ncalls = 1
  /\ sv.rerun = 0
  /\ sv.repeat = 0
  /\ sv.x_start = << DFromInt(2) >>
  /\ sv.epsilon = OneE_10
  /\ sv.max_iter = DefaultMaxIter

\* C18: Newton on f(x) = x^2 - 2 from x0 = 2 with epsilon = 1e-10 and
\* max_iter = 20 returns true after exactly 5 iterations, leaves
\* x = 1.4142135623730951, and then f_counter() = 5 and df_counter() = 5.
C18_NewtonReference ==
  ReferenceRun("Newton") =>
    /\ sv.has_converged
    /\ last.out = 1
    /\ sv.steps = 5
    /\ Len(log) = 5
    /\ x = << Root >>
    /\ heap[obj[1].f_counter] = 5
    /\ heap[obj[1].df_counter] = 5

C18_Witness ==
  /\ ReferenceRun("Newton")
  /\ sv.steps = 5
  /\ heap[obj[1].df_counter] = 5

\* C19: Steffensen on the downgraded Function from x0 = 2 with the default
\* epsilon and max_iter returns true within 7 iterations at the same root
\* (closer to it than epsilon), and then the original reads f_counter() = 14
\* and df_counter() = 0.
C19_SteffensenReference ==
  ReferenceRun("Steffensen") =>
    /\ sv.has_converged
    /\ last.out = 1
    /\ sv.steps <= 7
    /\ Len(log) = sv.steps
    /\ DLt(DAbs(DSub(x[1], Root)), OneE_10)
    /\ obj[sv.inst].kind = "Function"
    /\ heap[obj[1].f_counter] = 14
    /\ heap[obj[1].df_counter] = 0

C19_Witness ==
  /\ ReferenceRun("Steffensen")
  /\ sv.steps = 7
  /\ heap[obj[1].f_counter] = 14


(***************************************************************************)
(* The state of Adam_optimize between calls.                               *)
(***************************************************************************)
\* an Adam_optimize call that repeated the previous call, with the same
\* configuration, objective and initial x, has returned
Repeated == IsAdam /\ Returned /\ sv.repeat > 0

\* C20: the moment vectors are locals of the call, zero when it starts:
\* an Adam_optimize call that repeats an earlier one, with the same
\* configuration, objective and initial x, leaves the same x and returns
\* the same value as that one, whatever the earlier call left behind.
C20_AdamStatePerCall ==
  /\ (IsAdam /\ pc = "loop" /\ sv.steps = 0) =>
       (sv.m_k = VZero(Len(x)) /\ sv.v_k = VZero(Len(x)))
  /\ Repeated => (x = sv.prev.x /\ sv.has_converged = sv.prev.ret)

C20_Witness ==
  /\ Repeated
  /\ sv.updates >= 2
  /\ x # sv.x_start
  /\ sv.m_k # VZero(Len(x))

(***************************************************************************)
(* What a run of a root solver costs and reports.                          *)
(***************************************************************************)
\* the cell read by f_counter() / df_counter() of the variable the solver
\* was called on, 0 when it has none
ValueCell == obj[sv.inst].f_counter
DerivCell == obj[sv.inst].df_counter

\* the solver call is the first one made, on counters that read 0
FirstCall == ncalls = 1 /\ sv.rerun = 0 /\ sv.repeat = 0

\* the cells other than ValueCell and DerivCell
OtherCells == (1..Len(heap)) \ {ValueCell, DerivCell}

C21_Iteration ==
  /\ (IsRoot /\ sv'.steps = sv.steps + 1) =>
       /\ Len(heap') = Len(heap)
       /\ \A c \in OtherCells : heap'[c] = heap[c]
       /\ (sv.alg = "Newton" /\ ValueCell # 0) =>
            /\ heap'[ValueCell] = heap[ValueCell] + 1
            /\ heap'[DerivCell] = heap[DerivCell] + 1
       /\ (sv.alg = "Steffensen" /\ ValueCell # 0) =>
            /\ heap'[ValueCell] = heap[ValueCell] + 2
            /\ DerivCell = 0
  /\ (IsRoot /\ sv'.alg = sv.alg /\ sv'.steps = sv.steps) => heap' = heap

C21_Total ==
  (IsRoot /\ FirstCall /\ ValueCell # 0) =>
    /\ sv.alg = "Newton" =>
         heap[ValueCell] = sv.steps /\ heap[DerivCell] = sv.steps
    /\ sv.alg = "Steffensen" =>
         heap[ValueCell] = 2 * sv.steps /\ heap[obj[1].df_counter] = 0

\* C21: every iteration of Newton advances the value counter and the
\* derivative counter by exactly 1 each, every iteration of Steffensen
\* advances the value counter by exactly 2 and no derivative counter, and
\* nothing else in the call advances a counter: a run of n iterations
\* advances them by n and n, respectively by 2n and 0.
C21_SolverEvaluationCounts == []C21_Total /\ [][C21_Iteration]_vars

\* a Steffensen call of three iterations on counters that read 0 has
\* returned
C21_Witness ==
  /\ sv.alg = "Steffensen" /\ Returned /\ FirstCall
  /\ sv.steps = 3
  /\ ValueCell # 0
  /\ heap[ValueCell] = 6

\* the gradient evaluations a call that is never below the threshold makes
AdamCap ==
  IF sv.cfg.maximimum_iterations <= 1 THEN 0
  ELSE sv.cfg.maximimum_iterations - 1

C22_Iteration ==
  (IsAdam /\ sv'.alg = sv.alg /\ sv'.x_start = sv.x_start /\ pc # "done") =>
    /\ sv'.evals.f_df = 0
    /\ DerivCell # 0 =>
         heap'[DerivCell] = heap[DerivCell] + (sv'.steps - sv.steps)
    /\ sv'.steps - sv.steps = (IF pc = "loop" /\ pc' # "done" THEN 1 ELSE 0)

C22_Total ==
  (IsAdam /\ FirstCall /\ DerivCell # 0) =>
    /\ heap[DerivCell] = sv.steps
    /\ (Returned /\ sv.has_converged) => heap[DerivCell] = sv.iter
    /\ (Returned /\ ~sv.has_converged) => heap[DerivCell] = AdamCap

\* C22: Adam_optimize evaluates the gradient once per started iteration,
\* through df and never through f_df: when it returns true at iteration k
\* the derivative counter has advanced by exactly k, and when it returns
\* false by exactly max_iterations - 1, or by 0 when max_iterations is 0
\* or 1.
C22_AdamGradientCount == []C22_Total /\ [][C22_Iteration]_vars

\* a call on counters that read 0 has returned true after its tenth
\* iteration
C22_Witness ==
  /\ IsAdam /\ Returned /\ FirstCall
  /\ sv.has_converged
  /\ sv.iter > 10
  /\ DerivCell # 0
  /\ heap[DerivCell] = sv.iter

(***************************************************************************)
(* The life of a counter.                                                  *)
(***************************************************************************)
Evaluation == {"f", "df", "f_df"}
Exists(i) == obj[i].kind # "none"

\* the wrapper just constructed holds no counter
C23_Fresh ==
  last.op \in {"Function", "Differentiable_Function"}
  => /\ origin[last.inst].how = "wrap"
     /\ obj[last.inst].f_counter = 0
     /\ obj[last.inst].df_counter = 0

\* an evaluation through an instance that holds no counter returns, and
\* makes none
C23_Evaluate ==
  \A i \in Inst :
    (Exists(i) /\ obj[i].f_counter = 0 /\ obj[i].df_counter = 0
       /\ last'.inst = i /\ last'.op \in Evaluation)
    => /\ status' = "running"
       /\ obj' = obj
       /\ heap' = heap

\* the counters of an instance change by initialize_counter() on it only
C23_Keep ==
  \A i \in Inst :
    (Exists(i) /\ obj'[i] # obj[i])
    => last'.op = "initialize_counter" /\ last'.inst = i

\* initialize_counter() gives the instance new counter(s), reading zero,
\* whatever the ones it held read
C23_Initialize ==
  \A i \in Inst :
    (last'.op = "initialize_counter" /\ last'.inst = i
       /\ Len(heap') > Len(heap))
    => /\ obj'[i].f_counter \in (Len(heap) + 1)..Len(heap')
       /\ heap'[obj'[i].f_counter] = 0
       /\ IF IsDF(i)
          THEN /\ obj'[i].df_counter \in (Len(heap) + 1)..Len(heap')
               /\ obj'[i].df_counter # obj'[i].f_counter
               /\ heap'[obj'[i].df_counter] = 0
          ELSE obj'[i].df_counter = 0

\* f_counter() and df_counter() called next read 0
C23_Read ==
  (last.op = "initialize_counter" /\ last'.inst = last.inst
     /\ last'.op \in {"f_counter", "df_counter"})
  => last'.out = 0 /\ status' = "running"

NormAtX == norm_2(Impl_df(impls[obj[sv.inst].pimpl], x))
LastRecord == log[Len(log)]

\* the iteration that finds the norm below the threshold changes neither x
\* nor the moments
C24_Iteration ==
  (IsAdam /\ pc = "loop" /\ pc' = "break") =>
    /\ FLt(NormAtX, sv.cfg.absolute_epsilon)
    /\ x' = x
    /\ sv'.m_k = sv.m_k
    /\ sv'.v_k = sv.v_k
    /\ sv'.updates = sv.updates

\* the iterations before it all made the update; x is the point of the
\* record written at the converging iteration, where the gradient was
\* evaluated last
C24_Returned ==
  (IsAdam /\ sv.has_converged /\ pc \in {"break", "done"}) =>
    /\ sv.updates = sv.steps - 1
    /\ Len(log) > 0
    /\ LastRecord.iter = sv.steps
    /\ LastRecord.x = x
    /\ LastRecord.norm = NormAtX
    /\ FLt(NormAtX, sv.cfg.absolute_epsilon)

\* C24: Adam_optimize tests convergence and leaves the loop before the
\* moments and the iterate are updated: the converging iteration changes
\* neither, and whenever the call returns true the caller's x is the point
\* where the gradient was evaluated last, and the norm of the gradient
\* there is below absolute_epsilon.
C24_AdamConvergedPoint == []C24_Returned /\ [][C24_Iteration]_vars

\* C24 witness: a call that returned true after iterations that moved x.
C24_Witness ==
  /\ IsAdam /\ Returned /\ sv.has_converged
  /\ sv.updates > 0
  /\ x # sv.x_start
  /\ LastRecord.x = x

(***************************************************************************)
(* What Newton and Steffensen report.                                      *)
(***************************************************************************)
\* the value of the function at the caller's x
ValueAtX == User(impls[obj[sv.inst].pimpl].fn, impls[obj[sv.inst].pimpl].c,
                 x, TRUE, FALSE).f

\* an iteration adds one record: its index, the iterate it leaves in x and
\* the value it computed; nothing else of the call writes
C25_Iteration ==
  /\ (IsRoot /\ sv'.steps = sv.steps + 1) =>
       /\ Len(log') = Len(log) + 1
       /\ SubSeq(log', 1, Len(log)) = log
       /\ log'[Len(log')].iter = sv.iter
       /\ log'[Len(log')].x = x'
       /\ log'[Len(log')].f = ValueAtX
  /\ (IsRoot /\ sv'.alg = sv.alg /\ sv'.steps = sv.steps) => log' = log

\* the records of a call are numbered 1, 2, ..., n, n the number of
\* iterations executed; the last one is that of the converging iteration
C25_Records ==
  IsRoot =>
    /\ Len(log) = sv.steps
    /\ \A k \in 1..Len(log) : log[k].iter = k
    /\ (sv.has_converged /\ pc \in {"break", "done"}) =>
         /\ Len(log) = sv.iter
         /\ log[Len(log)].x = x

\* C25: every executed iteration of Newton and of Steffensen, the
\* converging one included, emits exactly one record carrying the
\* iteration index, the iterate and the function value, and the indices
\* of the records emitted are 1, 2, ..., n in increasing order without a
\* gap, n being the number of executed iterations.
C25_OneRecordPerIteration == []C25_Records /\ [][C25_Iteration]_vars

\* C25 witness: a call of Newton that converged at its fourth iteration
\* and wrote four records.
C25_Witness ==
  /\ sv.alg = "Newton" /\ Returned /\ sv.has_converged
  /\ sv.steps = 4
  /\ Len(log) = 4
  /\ log[4].iter = 4

(***************************************************************************)
(* Division by zero in Newton and Steffensen.                              *)
(***************************************************************************)
Faulty(a) == IsNaN(a) \/ IsInf(a)
Square == impls[obj[sv.inst].pimpl]

\* what the iteration about to run divides by: df for Newton, g - f for
\* Steffensen
Divisor ==
  IF sv.alg = "Newton"
  THEN User(Square.fn, Square.c, x, FALSE, TRUE).df[1]
  ELSE FSub(User(Square.fn, Square.c, << FAdd(x[1], ValueAtX) >>,
                 TRUE, FALSE).f, ValueAtX)

\* the iteration about to run divides by zero
DividesByZero == IsRoot /\ pc = "loop" /\ ~Faulty(x[1]) /\ Divisor = 0

\* an iteration that divides by zero is an iteration like the others: it
\* raises nothing, counts and reports, and leaves the quotient, an infinity
\* or a NaN, in x; an iteration that starts from such an x leaves another
C26_Iteration ==
  /\ status' = status
  /\ (DividesByZero /\ sv'.steps = sv.steps + 1) =>
       /\ Faulty(sv'.delta_x)
       /\ x' = << FAdd(x[1], sv'.delta_x) >>
       /\ Faulty(x'[1])
       /\ sv'.has_converged = RootConverged(sv'.delta_x, sv.epsilon)
       /\ Len(log') = Len(log) + 1
       /\ pc' \in {"loop", "break"}
  /\ (IsRoot /\ sv'.steps = sv.steps + 1 /\ Faulty(x[1])) => Faulty(x'[1])

\* all that a call gives back is the flag
C26_Outcome ==
  /\ IsRoot => status = "running"
  /\ (IsRoot /\ Returned) =>
       /\ last.op = sv.alg
       /\ last.out = (IF sv.has_converged THEN 1 ELSE 0)

\* C26: when the derivative is zero in an iteration of Newton, or g - f in
\* an iteration of Steffensen, the solver raises no error and handles
\* nothing: the quotient goes into x as an infinity or a NaN, and what the
\* call gives back is still the boolean flag alone.
C26_UnguardedDivision == []C26_Outcome /\ [][C26_Iteration]_vars

\* C26 witness: Newton called at 0, where the derivative is 0, has run its
\* iterations and returned false with x a NaN.
C26_Witness ==
  /\ sv.alg = "Newton" /\ Returned
  /\ sv.x_start = << 0 >>
  /\ sv.steps > 1
  /\ Faulty(log[1].x[1])
  /\ IsNaN(x[1])
  /\ last.out = 0

\* a call of Steffensen whose first iteration had g - f = 0
C26_SteffensenCase ==
  /\ sv.alg = "Steffensen" /\ Returned
  /\ sv.x_start = StallPoint
  /\ sv.steps > 1
  /\ Faulty(log[1].x[1])
  /\ Faulty(x[1])

====
